---- MODULE Spec2Model ----
(***************************************************************************)
(* Model of the symbol router of sidecar/src/agentic/symbol/locker.rs:     *)
(* SymbolLocker::process_request and SymbolLocker::create_symbol_agent,    *)
(* run by several concurrent callers over the shared registry `symbols`,   *)
(* together with the message loop of the actors they spawn.                *)
(***************************************************************************)
EXTENDS Integers, Sequences, FiniteSets, TLC

(* ------------------------------------------------------------------ *)
(* Bounds                                                              *)
(* ------------------------------------------------------------------ *)

\* number of process_request calls made during a session
MaxRequests == 2

Reqs == 1..MaxRequests

\* a request index that names no request / a channel index that names no channel
NoReq == 0
NoChan == 0

(* ------------------------------------------------------------------ *)
(* Data                                                                *)
(* ------------------------------------------------------------------ *)

\* Option<String>::None of SymbolIdentifier::fs_file_path
NoPath == "None"

\* the SymbolIdentifier values requests are addressed to: name plus optional path
SymbolIdentifier ==
    { [symbol_name |-> "Foo", fs_file_path |-> "b.rs"],
      [symbol_name |-> "parseConfig", fs_file_path |-> "a.rs"],
      [symbol_name |-> "Foo", fs_file_path |-> NoPath] }

\* the value of a request slot that has not been given to process_request yet
NoIdentifier == [symbol_name |-> "", fs_file_path |-> NoPath]

\* Result<Snippet, SymbolError> of ToolBox::find_snippet_for_symbol
SnippetErrors == {"SnippetNotFound", "OutlineNodeNotFound", "ToolError"}
SnippetResults == {"Ok"} \cup SnippetErrors

\* MechaCodeSymbolThinking::new(name, vec![], false, path, Some(snippet), ..)
MechaCodeSymbolThinking(symbol_identifier) ==
    [symbol_name |-> symbol_identifier.symbol_name,
     file_path |-> symbol_identifier.fs_file_path]

\* MechaCodeSymbolThinking::to_symbol_identifier: name and file path of the request
to_symbol_identifier(request) ==
    [symbol_name |-> request.symbol_name, fs_file_path |-> request.file_path]

(* ------------------------------------------------------------------ *)
(* State                                                               *)
(* ------------------------------------------------------------------ *)

VARIABLES
    pc,              \* position of each process_request call
    request_symbol,  \* request.symbol() of each call
    lookup_hit,      \* what the first registry lookup of the call observed
    does_exist,      \* the local does_exist of the call
    snippet,         \* result of find_snippet_for_symbol of the call
    symbols,         \* the registry: SymbolIdentifier -> mailbox sender
    lock,            \* holder of the registry mutex
    receiver,        \* state of the receiving half of each channel
    mailbox,         \* messages queued in each channel
    handling,        \* the message the actor of each channel is handling
    reply,           \* the caller's one-shot reply channel of each call
    sent,            \* sends that succeeded, in order: <<request, channel>>
    handled,         \* requests in the order their handling began
    overlap,         \* pairs of same-identifier calls that both started before either registered
    forwarded_before, \* the calls already forwarded when each call was made
    dead_before      \* the channels of its identifier whose receiver was gone when each call was made

\* the state of the symbol router and its actors
lockerVars == <<pc, request_symbol, lookup_hit, does_exist, snippet, symbols, lock,
                receiver, mailbox, handling, reply, sent, handled, overlap,
                forwarded_before, dead_before>>

\* the state of the tool broker (ToolBroker::new, with_mcp, invoke) and of the
\* ToolBox capability calls that go through it
VARIABLES
    b_pc,             \* position of the broker's construction
    tools,            \* ToolBroker::tools: ToolType -> implementation
    mcp_config,       \* what each MCP server of ~/.aide/config.json does
    clients,          \* the clients of setup_mcp_clients not yet iterated
    server_name,      \* the server whose tools are being registered
    tool_infos,       \* list_res.tools still to be registered
    known_tool_names, \* known_tool_names: tool name -> server
    with_mcp_result,  \* what with_mcp returned
    inv_pc,           \* position of the current ToolBroker::invoke call
    inv_input,        \* the input of the current invoke call
    inv_tools_before, \* the registry when the current invoke call began
    inv_calls,        \* the implementations the current invoke call has invoked
    inv_tool_result,  \* what the invoked implementation returned
    inv_result,       \* what the current invoke call returned
    inv_count,        \* number of invoke calls made
    tb_cap,           \* the ToolBox capability call the invoke call belongs to
    tb_send_failed,   \* whether ui_events.send failed in that capability call
    tb_result,        \* what the capability call returned
    ui_open,          \* whether the receiver of ui_events is alive
    ui_events         \* number of events delivered on ui_events

brokerVars == <<b_pc, tools, mcp_config, clients, server_name, tool_infos,
                known_tool_names, with_mcp_result, inv_pc, inv_input,
                inv_tools_before, inv_calls, inv_tool_result, inv_result,
                inv_count, tb_cap, tb_send_failed, tb_result, ui_open, ui_events>>

\* the state of the ToolBox::check_code_correctness calls
VARIABLES
    cc_pc,            \* position of the current call
    tries,            \* the local tries
    cc_diagnostics,   \* whether the diagnostics of the current iteration are non-empty
    cc_quick_fixes,   \* quick_fix_actions.len() of the current iteration
    cc_index,         \* selected_action_index of the current iteration
    cc_iter_calls,    \* number of capability calls of each kind in the current iteration
    cc_calls,         \* number of capability calls of each kind in the current call
    cc_result,        \* what the current call returned
    cc_ending,        \* how the loop of the current call ended
    cc_returned,      \* the values returned so far, by how the loop ended
    cc_count,         \* number of check_code_correctness calls made
    cc_error,         \* the Err a capability call of the current call returned
    invocation_success \* response.is_success() of the last quick-fix invocation

correctnessVars == <<cc_pc, tries, cc_diagnostics, cc_quick_fixes, cc_index,
                     cc_iter_calls, cc_calls, cc_result, cc_ending,
                     cc_returned, cc_count, cc_error, invocation_success>>

\* the state of one DynamicMCPTool and of the calls made on it
VARIABLES
    m_pc,             \* position of the current DynamicMCPTool::invoke call
    dyn_tool,         \* the fields of the DynamicMCPTool
    m_input,          \* the input of the current invoke call
    m_fields,         \* partial.fields of the current invoke call
    call_tool,        \* the call_tool requests issued to the server, in order
    m_outcome,        \* what the server answered to the call_tool of the current call
    m_result,         \* what the current invoke call returned
    m_count,          \* number of invoke calls made
    usage,            \* what tool_input_format returned
    description       \* what tool_description returned

mcpVars == <<m_pc, dyn_tool, m_input, m_fields, call_tool, m_outcome, m_result, m_count,
             usage, description>>

\* the state of one OllamaClient::stream_completion call
VARIABLES
    o_pc,             \* position of the call
    chunks,           \* value.response of the chunks parsed so far, in order
    buffered_string,  \* the local buffered_string
    o_sent,           \* the messages sent on the sender, in order
    o_open,           \* whether the receiver of the sender is alive
    o_result          \* what the call returned

ollamaVars == <<o_pc, chunks, buffered_string, o_sent, o_open, o_result>>

\* the state of one ToolBox operation: a fan-out, find_snippet_for_symbol or
\* utlity_symbols_search
VARIABLES
    f_pc,             \* position of the fan-out
    f_items,          \* number of items of the iterator handed to stream::iter
    f_next,           \* number of items whose future buffer_unordered has started
    f_done,           \* number of futures that have completed
    f_watch,          \* where each watched item is
    f_times,          \* how many times each watched item's future has completed
    s_pc,             \* position of find_snippet_for_symbol
    s_definitions,    \* number of definitions go_to_definition returned
    s_result,         \* what find_snippet_for_symbol returned
    u_pc,             \* position of utlity_symbols_search
    u_files,          \* number of distinct file paths of the search response
    u_opened,         \* what the broker returned for each file's open request
    u_mapping,        \* file_to_content_mapping: the files with a content
    u_result          \* what utlity_symbols_search returned

toolboxVars == <<f_pc, f_items, f_next, f_done, f_watch, f_times,
                 s_pc, s_definitions, s_result,
                 u_pc, u_files, u_opened, u_mapping, u_result>>

\* the state of one File::index_repository run
VARIABLES
    i_pc,             \* position of the run
    i_count,          \* walker.len()
    processed,        \* the AtomicU64 processed
    cancelled,        \* what pipes.is_cancelled() returns
    seen_cancelled,   \* what the check after the walk saw
    percents,         \* the values handed to pipes.index_percent
    synchronized,     \* whether file_cache.synchronize has run
    i_result          \* what index_repository returned

indexVars == <<i_pc, i_count, processed, cancelled, seen_cancelled, percents,
               synchronized, i_result>>

\* the state of REQUEST_COUNT and of the threads that call check_rate_limit
VARIABLES
    clock,            \* the system time in ms
    ticks,            \* number of times the clock has advanced
    second,           \* REQUEST_COUNT.second
    last_reset,       \* REQUEST_COUNT.last_reset
    poisoned,         \* whether a thread panicked with the mutex held
    overflow_checks,  \* whether the build checks integer overflow
    r_pc,             \* position of each thread
    r_now,            \* the local now of each thread
    r_result,         \* what the last call of each thread returned
    r_calls,          \* number of check_rate_limit calls made
    window_oks,       \* number of Ok results since the last reset made in time
    early_resets      \* number of resets made with now before last_reset

rateVars == <<clock, ticks, second, last_reset, poisoned, overflow_checks, r_pc,
              r_now, r_result, r_calls, window_oks, early_resets>>

vars == <<lockerVars, brokerVars, correctnessVars, mcpVars, ollamaVars, toolboxVars,
          indexVars, rateVars>>

\* what the steps of index_repository leave alone
nonIndexVars == <<lockerVars, brokerVars, correctnessVars, mcpVars, ollamaVars,
                  toolboxVars, rateVars>>

\* what the steps of check_rate_limit leave alone
nonRateVars == <<lockerVars, brokerVars, correctnessVars, mcpVars, ollamaVars,
                 toolboxVars, indexVars>>

\* what the steps of a ToolBox operation leave alone
nonToolBoxVars == <<lockerVars, brokerVars, correctnessVars, mcpVars, ollamaVars,
    indexVars, rateVars>>

\* what the steps of stream_completion leave alone
nonOllamaVars == <<lockerVars, brokerVars, correctnessVars, mcpVars, toolboxVars,
    indexVars, rateVars>>

\* what the steps of a DynamicMCPTool leave alone
nonMcpVars == <<lockerVars, brokerVars, correctnessVars, ollamaVars, toolboxVars,
    indexVars, rateVars>>

\* what the steps of the symbol router leave alone
nonLockerVars == <<brokerVars, correctnessVars, mcpVars, ollamaVars, toolboxVars,
    indexVars, rateVars>>

\* what the steps of the tool broker leave alone
nonBrokerVars == <<lockerVars, correctnessVars, mcpVars, ollamaVars, toolboxVars,
    indexVars, rateVars>>

\* what the steps of check_code_correctness leave alone
nonCorrectnessVars == <<lockerVars, brokerVars, mcpVars, ollamaVars, toolboxVars,
    indexVars, rateVars>>

\* a channel is named by the process_request call whose create_symbol_agent made it
Chans == Reqs

\* the registry holds the only sender of a channel
SenderAlive(c) == \E id \in SymbolIdentifier : symbols[id] = c

\* positions of a call before its create_symbol_agent has inserted into the registry
PreInsert == {"lookup_wait", "lookup", "resolving", "create_wait", "create_insert"}

Init ==
    /\ pc = [r \in Reqs |-> "idle"]
    /\ request_symbol = [r \in Reqs |-> NoIdentifier]
    /\ lookup_hit = [r \in Reqs |-> FALSE]
    /\ does_exist = [r \in Reqs |-> FALSE]
    /\ snippet = [r \in Reqs |-> "none"]
    /\ symbols = [id \in SymbolIdentifier |-> NoChan]
    /\ lock = NoReq
    /\ receiver = [c \in Chans |-> "none"]
    /\ mailbox = [c \in Chans |-> <<>>]
    /\ handling = [c \in Chans |-> NoReq]
    /\ reply = [r \in Reqs |-> "pending"]
    /\ sent = <<>>
    /\ handled = <<>>
    /\ overlap = {}
    /\ forwarded_before = [r \in Reqs |-> {}]
    /\ dead_before = [r \in Reqs |-> {}]

(* ------------------------------------------------------------------ *)
(* Tool broker: data and initial state                                 *)
(* ------------------------------------------------------------------ *)

\* number of ToolBroker::invoke calls made on one broker
MaxInvokes == 1

\* length of the longest tool list an MCP server returns
MaxListed == 2

\* the MCP servers ~/.aide/config.json may name, and the tool names they may
\* list, one of them the name of a tool type of ToolBroker::new
Servers == {"s1", "s2"}
McpToolNames == {"OpenFile", "t2"}

\* the tool types ToolBroker::new registers (those of the capability calls below)
StaticToolKinds == {"OpenFile", "GoToDefinitions", "LSPDiagnostics", "EditorApplyEdits"}

\* ToolType: a plain variant, or DynamicMCPTool(name)
StaticToolType(kind) == [kind |-> kind, name |-> ""]
DynamicMCPToolType(name) == [kind |-> "DynamicMCPTool", name |-> name]
ToolTypes ==
    { StaticToolType(k) : k \in StaticToolKinds \cup {"MCPIntegrationTool"} }
        \cup { DynamicMCPToolType(n) : n \in McpToolNames }

\* Box<dyn Tool>: the implementation registered under a tool type, by the
\* server it talks to ("" for a tool of ToolBroker::new)
Implementation(server, tool_type) == [server |-> server, tool |-> tool_type]
NoTool == Implementation("", [kind |-> "None", name |-> ""])
Implementations ==
    { Implementation("", StaticToolType(k)) : k \in StaticToolKinds }
        \cup { Implementation(sv, DynamicMCPToolType(n)) : sv \in Servers, n \in McpToolNames }

\* ToolInput: its variant and, for DynamicMCPTool, the tool name it carries
ToolInput(variant, tool_name) == [variant |-> variant, tool_name |-> tool_name]
ToolInputs ==
    { ToolInput(v, "") : v \in {"OpenFile", "GoToDefinition", "LSPDiagnostics",
                                "EditorApplyChange", "MCPTool"} }
        \cup { ToolInput("DynamicMCPTool", n) : n \in McpToolNames }
NoInput == ToolInput("None", "")

\* ToolInput::tool_type
tool_type(input) ==
    CASE input.variant = "OpenFile" -> StaticToolType("OpenFile")
      [] input.variant = "GoToDefinition" -> StaticToolType("GoToDefinitions")
      [] input.variant = "LSPDiagnostics" -> StaticToolType("LSPDiagnostics")
      [] input.variant = "EditorApplyChange" -> StaticToolType("EditorApplyEdits")
      [] input.variant = "MCPTool" -> StaticToolType("MCPIntegrationTool")
      [] input.variant = "DynamicMCPTool" -> DynamicMCPToolType(input.tool_name)

\* Result<ToolOutput, ToolError>: Ok with the variant of the output, or Err with
\* the error; `by` is the implementation that produced it ("" for the broker)
ToolOutputVariants ==
    {"FileOpen", "GoToDefinition", "LSPDiagnostics", "EditorApplyChanges", "MCPIntegration"}
ToolErrors == {"ErrorCommunicatingWithEditor", "SerdeConversionFailed"}
ToolResult(ok, value, by) == [ok |-> ok, value |-> value, by |-> by]
NoResult == ToolResult(FALSE, "None", NoTool)
MissingTool == ToolResult(FALSE, "MissingTool", NoTool)
\* the output variant the implementation of a tool type produces
OutputVariantOf(tt) ==
    CASE tt.kind = "OpenFile" -> "FileOpen"
      [] tt.kind = "GoToDefinitions" -> "GoToDefinition"
      [] tt.kind = "LSPDiagnostics" -> "LSPDiagnostics"
      [] tt.kind = "EditorApplyEdits" -> "EditorApplyChanges"
      [] OTHER -> "MCPIntegration"
\* another variant than that one
OtherVariantThan(v) == IF v = "MCPIntegration" THEN "FileOpen" ELSE "MCPIntegration"
\* what an implementation can return: its own variant, another variant, an error
ToolResultsOf(tool) ==
    { ToolResult(TRUE, v, tool) :
        v \in {OutputVariantOf(tool.tool), OtherVariantThan(OutputVariantOf(tool.tool))} }
        \cup { ToolResult(FALSE, e, tool) : e \in ToolErrors }

\* what a server of the configuration does: it is not configured, it fails to
\* spawn or initialize, its list_tools fails, or it lists `listing`
ServerBehaviour(status, listing) == [status |-> status, listing |-> listing]
Listings ==
    UNION { [1..n -> McpToolNames] : n \in 0..MaxListed }
ServerBehaviours ==
    { ServerBehaviour(st, <<>>) : st \in {"absent", "spawn_failed", "list_failed"} }
        \cup { ServerBehaviour("ok", l) : l \in Listings }

\* the registry of a broker that was dropped or not built yet
EmptyRegistry == [tt \in ToolTypes |-> NoTool]

\* the ToolBox capability calls that emit a UI event, with the input they send
\* and the output variant their getter accepts
Capabilities == {"file_open", "go_to_definition", "get_lsp_diagnostics", "apply_edits_to_editor"}
NoCapability == "None"
CapabilityInput(cap) ==
    CASE cap = "file_open" -> ToolInput("OpenFile", "")
      [] cap = "go_to_definition" -> ToolInput("GoToDefinition", "")
      [] cap = "get_lsp_diagnostics" -> ToolInput("LSPDiagnostics", "")
      [] cap = "apply_edits_to_editor" -> ToolInput("EditorApplyChange", "")
CapabilityOutput(cap) ==
    CASE cap = "file_open" -> "FileOpen"
      [] cap = "go_to_definition" -> "GoToDefinition"
      [] cap = "get_lsp_diagnostics" -> "LSPDiagnostics"
      [] cap = "apply_edits_to_editor" -> "EditorApplyChanges"

BrokerInit ==
    /\ b_pc = "start"
    /\ tools = EmptyRegistry
    /\ mcp_config = [sv \in Servers |-> ServerBehaviour("absent", <<>>)]
    /\ clients = {}
    /\ server_name = ""
    /\ tool_infos = <<>>
    /\ known_tool_names = [n \in McpToolNames |-> ""]
    /\ with_mcp_result = "None"
    /\ inv_pc = "idle"
    /\ inv_input = NoInput
    /\ inv_tools_before = EmptyRegistry
    /\ inv_calls = <<>>
    /\ inv_tool_result = NoResult
    /\ inv_result = NoResult
    /\ inv_count = 0
    /\ tb_cap = NoCapability
    /\ tb_send_failed = FALSE
    /\ tb_result = "None"
    /\ ui_open = TRUE
    /\ ui_events = 0

(* ------------------------------------------------------------------ *)
(* check_code_correctness: data and initial state                      *)
(* ------------------------------------------------------------------ *)

\* number of check_code_correctness calls made
MaxCorrectnessCalls == 2

\* length of the longest quick-fix list the editor returns
MaxQuickFixes == 2

\* let max_tries = 5
max_tries == 5

\* the capability calls of one iteration
CallKinds ==
    {"find_symbol_to_edit", "file_open", "apply_edits_to_editor", "get_lsp_diagnostics",
     "get_quick_fix_actions", "code_correctness_action_selection",
     "code_correctness_with_edits", "invoke_quick_action"}

\* the SymbolError a failing capability call returns
CapabilityErrors(kind) ==
    IF kind = "find_symbol_to_edit"
    THEN {"ExpectedFileToExist", "SymbolNotFound"}
    ELSE {"ToolError", "WrongToolOutput"}

\* Result<(), SymbolError>
CorrectnessResults ==
    {"Ok"} \cup UNION { CapabilityErrors(k) : k \in CallKinds }

\* the values selected_action.index() can take: an i64 parsed from the LLM's answer
ActionIndexes == -1..(MaxQuickFixes + 1)

\* how a call can end: diagnostics cleared, tries exhausted, a capability failed
Endings == {"cleared", "exhausted", "failed"}

\* no capability call made
NoCalls == [k \in CallKinds |-> 0]

CorrectnessInit ==
    /\ cc_pc = "idle"
    /\ tries = 0
    /\ cc_diagnostics = FALSE
    /\ cc_quick_fixes = 0
    /\ cc_index = 0
    /\ cc_iter_calls = NoCalls
    /\ cc_calls = NoCalls
    /\ cc_result = "None"
    /\ cc_ending = "None"
    /\ cc_returned = [e \in Endings |-> {}]
    /\ cc_count = 0
    /\ cc_error = "None"
    /\ invocation_success = "None"

(* ------------------------------------------------------------------ *)
(* DynamicMCPTool: data and initial state                              *)
(* ------------------------------------------------------------------ *)

\* number of DynamicMCPTool::invoke calls made on the tool
MaxMcpInvokes == 1

\* the property names a schema can have, in the order of the keys of
\* serde_json's Map
FieldOrder == <<"content", "name">>
Fields == { FieldOrder[i] : i \in DOMAIN FieldOrder }

\* the value under a property name: with or without "description" and "type"
NoString == "<none>"
PropertyData(desc, tpe) == [description |-> desc, type |-> tpe]
PropertyValues == { PropertyData(NoString, NoString), PropertyData("the text", "number") }

\* schema.get("properties").and_then(|p| p.as_object()): None when the schema
\* has no "properties" or it is not an object
NoProperties == [f \in {} |-> PropertyData(NoString, NoString)]
NoObject == [f \in {"<no object>"} |-> PropertyData(NoString, NoString)]

\* a tool's input_schema as a server lists it: "properties" (if an object) and
\* the strings of "required" (if an array)
Schema(properties, required) == [properties |-> properties, required |-> required]
Schemas ==
    { Schema(NoObject, req) : req \in {{}, {"name"}} }
        \cup { Schema(props, req) :
                  props \in UNION { [fs -> PropertyValues] : fs \in SUBSET Fields },
                  req \in SUBSET Fields }

\* DynamicMCPTool { server_name, tool_name, description, schema, client }
DynamicMCPTool(server, name, desc, schema) ==
    [server_name |-> server, tool_name |-> name,
     description |-> desc, schema |-> schema]
NoDynTool == DynamicMCPTool("", "", "", Schema(NoObject, {}))
Descriptions == {"", "Add a new note"}

\* what the server answers to call_tool: a result, or an error
CallToolOutcomes == {"result", "error", "transport closed"}

\* serde_json::to_value(result): the CallToolResult of the server serializes
to_value(outcome) ==
    IF outcome = "result" THEN [ok |-> TRUE, value |-> "object"]
    ELSE [ok |-> FALSE, value |-> "Serialize dynamic tool result failed"]

\* Result<ToolOutput, ToolError> of DynamicMCPTool::invoke
McpResult(ok, value, detail) == [ok |-> ok, value |-> value, detail |-> detail]
NoMcpResult == McpResult(FALSE, "None", "")
Panic == <<"panic">>
NoUsage == <<>>

McpInit ==
    /\ m_pc = "none"
    /\ dyn_tool = NoDynTool
    /\ m_input = NoInput
    /\ m_fields = {}
    /\ call_tool = <<>>
    /\ m_outcome = "none"
    /\ m_result = NoMcpResult
    /\ m_count = 0
    /\ usage = NoUsage
    /\ description = NoUsage

(* ------------------------------------------------------------------ *)
(* OllamaClient::stream_completion: data and initial state             *)
(* ------------------------------------------------------------------ *)

\* number of chunks of one response
MaxChunks == 3

\* a String, as the sequence of its characters
EmptyString == <<>>
ChunkTexts == { EmptyString, <<"a">>, <<"b", "c">> }

\* LLMClientCompletionResponse::new(answer_up_until_now, delta, model)
NoDelta == <<"<none>">>
LLMClientCompletionResponse(answer_up_until_now, delta) ==
    [answer_up_until_now |-> answer_up_until_now, delta |-> delta]

\* Result<LLMClientCompletionResponse, LLMClientError>
LLMClientErrors ==
    {"UnSupportedModel", "ReqwestError", "SerdeError", "SendError"}
CompletionResult(ok, response, error) == [ok |-> ok, response |-> response, error |-> error]
NoCompletionResult ==
    CompletionResult(FALSE, LLMClientCompletionResponse(EmptyString, NoDelta), "None")

OllamaInit ==
    /\ o_pc = "idle"
    /\ chunks = <<>>
    /\ buffered_string = EmptyString
    /\ o_sent = <<>>
    /\ o_open = TRUE
    /\ o_result = NoCompletionResult

(* ------------------------------------------------------------------ *)
(* ToolBox: data                                                       *)
(* ------------------------------------------------------------------ *)

\* the argument of every buffer_unordered call of the ToolBox
BufferLimit == 100

\* the largest number of items handed to one fan-out
MaxItems == 102

\* the numbers of items a fan-out is started with: none, one, a full window, one
\* more than the window, and the largest
ItemCounts == {n \in {0, 1, BufferLimit, BufferLimit + 1, MaxItems} : n <= MaxItems}

\* the items followed one by one: the first of the iterator and the first that
\* has to wait for a place in the window
Watched == {1, BufferLimit + 1}

\* the largest number of symbols of a utility search response
MaxFiles == 2

\* the largest number of definitions of a go-to-definition response
MaxDefinitions == 2

\* no go-to-definition response received
NoDefinitions == MaxDefinitions + 1

\* what the broker returns to a ToolBox helper: the output variant the helper
\* asked for, an Ok output of another variant, or an error
InvokeOutcomes == {"expected variant", "other variant", "Err"}

\* what symbol_broker.get_symbols_outline returns for a file: nothing, nodes
\* one of which is the symbol, or nodes none of which is the symbol
Outlines == {"None", "has symbol", "lacks symbol"}

\* Result<Snippet, SymbolError> of find_snippet_for_symbol, "None" before the
\* return and "panic" when the call unwinds
SnippetOutcomes ==
    {"None", "Ok(Snippet)", "Err(ToolError)", "Err(WrongToolOutput)",
     "Err(OutlineNodeNotFound)", "Err(SnippetNotFound)",
     "Err(ToolError(SymbolNotFound))", "panic"}

\* the symbols of a utility search response, one open-file request each
Files == 1 .. MaxFiles

\* Result<Vec<(symbol, outline)>, SymbolError> of utlity_symbols_search
UtilityResult(kind, definitions) == [kind |-> kind, definitions |-> definitions]

NoUtilityResult == UtilityResult("None", {})

ToolBoxInit ==
    /\ f_pc = "idle"
    /\ f_items = 0
    /\ f_next = 0
    /\ f_done = 0
    /\ f_watch = [w \in Watched |-> "absent"]
    /\ f_times = [w \in Watched |-> 0]
    /\ s_pc = "idle"
    /\ s_definitions = NoDefinitions
    /\ s_result = "None"
    /\ u_pc = "idle"
    /\ u_files = 0
    /\ u_opened = [f \in Files |-> "not asked"]
    /\ u_mapping = {}
    /\ u_result = NoUtilityResult

\* the state after construction: no call made on the router, no broker built,
(* ------------------------------------------------------------------ *)
(* File::index_repository: the data                                     *)
(* ------------------------------------------------------------------ *)

\* largest number of entries a walker holds
MaxEntries == 4

\* the walker of a run: GitWalker when the repository has a last commit (its
\* open_repository can fail), FileWalker otherwise
Walkers == {"git", "git_open_fails", "file"}

\* what index_repository returns
IndexResults == {"Ok", "Err(open_repository)", "Err(cancelled)", "Err(synchronize)"}

\* the percentage file_worker reports for the entry that found the counter at
\* completed: ((completed as f32 / count as f32) * 100f32) as u8
worker_percent(completed, count) == (completed * 100) \div count

IndexInit ==
    /\ i_pc = "idle"
    /\ i_count = 0
    /\ processed = 0
    /\ cancelled = FALSE
    /\ seen_cancelled = "unchecked"
    /\ percents = {}
    /\ synchronized = FALSE
    /\ i_result = "None"

(* ------------------------------------------------------------------ *)
(* check_rate_limit: the data                                           *)
(* ------------------------------------------------------------------ *)

\* const RATE_LIMIT_PER_SECOND: u32 = 5
RATE_LIMIT_PER_SECOND == 5

\* the length of a window in ms: now - count.last_reset > 1000
Window == 1000

\* number of threads that call check_rate_limit
MaxThreads == 2

\* number of check_rate_limit calls followed
MaxRateCalls == 7

\* number of times the clock advances
MaxTicks == 2

Threads == 1 .. MaxThreads

\* by how much the clock advances between two steps: within a window or
\* past it
TickSteps == {1, Window + 1}

\* what a check_rate_limit call returns; "panic" is a call that did not return
RateResults == {"None", "Ok", "Rate limit exceeded", "Failed to acquire lock", "panic"}

\* lazy_static REQUEST_COUNT: second 0, last_reset 0; the clock is past the
\* first window since the epoch
RateInit ==
    /\ clock = Window + 1
    /\ ticks = 0
    /\ second = 0
    /\ last_reset = 0
    /\ poisoned = FALSE
    /\ overflow_checks = "unknown"
    /\ r_pc = [t \in Threads |-> "idle"]
    /\ r_now = [t \in Threads |-> 0]
    /\ r_result = [t \in Threads |-> "None"]
    /\ r_calls = 0
    /\ window_oks = 0
    /\ early_resets = 0

\* no check_code_correctness call made, no DynamicMCPTool created, no
\* stream_completion call made, no ToolBox operation started, no indexing run
\* started, no check_rate_limit call made
InitAll ==
    /\ Init /\ BrokerInit /\ CorrectnessInit /\ McpInit /\ OllamaInit /\ ToolBoxInit
    /\ IndexInit /\ RateInit

(* ------------------------------------------------------------------ *)
(* SymbolLocker::process_request                                       *)
(* ------------------------------------------------------------------ *)

\* the one-shot sender of call r is dropped without a value having been sent
DropSender(r) == [reply EXCEPT ![r] = "dropped"]

\* a caller hands (request, sender) to process_request; calls are numbered in
\* the order they are made
ProcessRequestCall(r, id) ==
    /\ pc[r] = "idle"
    /\ \A q \in Reqs : q < r => pc[q] # "idle"
    /\ pc' = [pc EXCEPT ![r] = "lookup_wait"]
    /\ request_symbol' = [request_symbol EXCEPT ![r] = id]
    /\ overlap' = overlap \cup
          { {q, r} : q \in { q \in Reqs : /\ q # r
                                          /\ request_symbol[q] = id
                                          /\ pc[q] \in PreInsert } }
    /\ forwarded_before' =
          [forwarded_before EXCEPT ![r] = { sent[i][1] : i \in 1..Len(sent) }]
    /\ dead_before' =
          [dead_before EXCEPT
              ![r] = { c \in Chans : /\ request_symbol[c] = id
                                      /\ receiver[c] \in {"dropped", "terminated"} }]
    /\ UNCHANGED <<lookup_hit, does_exist, snippet, symbols, lock, receiver,
                   mailbox, handling, reply, sent, handled, nonLockerVars>>

\* self.symbols.lock().await of the first block: the mutex is acquired
LookupLock(r) ==
    /\ pc[r] = "lookup_wait"
    /\ lock = NoReq
    /\ lock' = r
    /\ pc' = [pc EXCEPT ![r] = "lookup"]
    /\ UNCHANGED <<request_symbol, lookup_hit, does_exist, snippet, symbols,
                   receiver, mailbox, handling, reply, sent, handled, overlap, forwarded_before,
                   dead_before, nonLockerVars>>

\* the value of does_exist after the first block: it starts false, the
\* is_none() branch is empty and the other branch assigns false
DoesExistAfterLookup(is_none) == IF is_none THEN FALSE ELSE FALSE

\* a first block whose guard is kept while the snippet is resolved and the
\* actor is made
LookupHoldsLock(r) ==
    /\ pc[r] = "lookup"
    /\ lock = r
    /\ LET is_none == symbols[request_symbol[r]] = NoChan
           exists == DoesExistAfterLookup(is_none)
       IN /\ lookup_hit' = [lookup_hit EXCEPT ![r] = ~is_none]
          /\ does_exist' = [does_exist EXCEPT ![r] = exists]
          /\ IF exists
             THEN /\ pc' = [pc EXCEPT ![r] = "forward_wait"]
                  /\ reply' = reply
                  /\ lock' = NoReq
             ELSE IF request_symbol[r].fs_file_path # NoPath
             THEN /\ pc' = [pc EXCEPT ![r] = "resolving"]
                  /\ reply' = reply
                  /\ lock' = r
             ELSE /\ pc' = [pc EXCEPT ![r] = "panicked"]
                  /\ reply' = DropSender(r)
                  /\ lock' = NoReq
    /\ UNCHANGED <<request_symbol, snippet, symbols, receiver, mailbox,
                   handling, sent, handled, overlap, forwarded_before,
                   dead_before, nonLockerVars>>

\* the first block and the branch on does_exist and on fs_file_path(): the
\* guard is released at the end of the condition; without a file path the call
\* panics in todo!() and its one-shot sender is dropped
Lookup(r) ==
    /\ pc[r] = "lookup"
    /\ lock = r
    /\ LET is_none == symbols[request_symbol[r]] = NoChan
           exists == DoesExistAfterLookup(is_none)
       IN /\ lookup_hit' = [lookup_hit EXCEPT ![r] = ~is_none]
          /\ does_exist' = [does_exist EXCEPT ![r] = exists]
          /\ IF exists
             THEN /\ pc' = [pc EXCEPT ![r] = "forward_wait"]
                  /\ reply' = reply
             ELSE IF request_symbol[r].fs_file_path # NoPath
             THEN /\ pc' = [pc EXCEPT ![r] = "resolving"]
                  /\ reply' = reply
             ELSE /\ pc' = [pc EXCEPT ![r] = "panicked"]
                  /\ reply' = DropSender(r)
    /\ lock' = NoReq
    /\ UNCHANGED <<request_symbol, snippet, symbols, receiver, mailbox,
                   handling, sent, handled, overlap, forwarded_before,
                   dead_before, nonLockerVars>>

\* find_snippet_for_symbol as a router that builds a degenerate actor: an Err
\* result continues into create_symbol_agent like an Ok one
FindSnippetDegenerate(r, result) ==
    /\ pc[r] = "resolving"
    /\ snippet' = [snippet EXCEPT ![r] = result]
    /\ pc' = [pc EXCEPT ![r] = "create_wait"]
    /\ receiver' = [receiver EXCEPT ![r] = "held"]
    /\ UNCHANGED <<request_symbol, lookup_hit, does_exist, symbols, lock, reply,
                   mailbox, handling, sent, handled, overlap, forwarded_before,
                   dead_before, nonLockerVars>>

\* create_symbol_agent that spawns symbol.run(receiver) as soon as the channel
\* is made, before the sender is inserted
FindSnippetSpawnsFirst(r, result) ==
    /\ pc[r] = "resolving"
    /\ snippet' = [snippet EXCEPT ![r] = result]
    /\ IF result = "Ok"
       THEN /\ pc' = [pc EXCEPT ![r] = "create_wait"]
            /\ receiver' = [receiver EXCEPT ![r] = "running"]
            /\ reply' = reply
       ELSE /\ pc' = [pc EXCEPT ![r] = "panicked"]
            /\ receiver' = receiver
            /\ reply' = DropSender(r)
    /\ UNCHANGED <<request_symbol, lookup_hit, does_exist, symbols, lock,
                   mailbox, handling, sent, handled, overlap, forwarded_before,
                   dead_before, nonLockerVars>>

\* find_snippet_for_symbol(..).await returns: Ok builds the
\* MechaCodeSymbolThinking and enters create_symbol_agent, which makes the
\* channel before it waits for the mutex; Err panics in todo!()
FindSnippet(r, result) ==
    /\ pc[r] = "resolving"
    /\ snippet' = [snippet EXCEPT ![r] = result]
    /\ IF result = "Ok"
       THEN /\ pc' = [pc EXCEPT ![r] = "create_wait"]
            /\ receiver' = [receiver EXCEPT ![r] = "held"]
            /\ reply' = reply
       ELSE /\ pc' = [pc EXCEPT ![r] = "panicked"]
            /\ receiver' = receiver
            /\ reply' = DropSender(r)
    /\ UNCHANGED <<request_symbol, lookup_hit, does_exist, symbols, lock,
                   mailbox, handling, sent, handled, overlap, forwarded_before,
                   dead_before, nonLockerVars>>

(* ------------------------------------------------------------------ *)
(* SymbolLocker::create_symbol_agent                                   *)
(* ------------------------------------------------------------------ *)

\* self.symbols.lock().await of create_symbol_agent: the mutex is acquired
CreateLock(r) ==
    /\ pc[r] = "create_wait"
    /\ lock = NoReq
    /\ lock' = r
    /\ pc' = [pc EXCEPT ![r] = "create_insert"]
    /\ UNCHANGED <<request_symbol, lookup_hit, does_exist, snippet, symbols,
                   receiver, mailbox, handling, reply, sent, handled, overlap, forwarded_before,
                   dead_before, nonLockerVars>>

\* an insert that keeps the sender already registered under the identifier
CreateInsertKeepsExisting(r) ==
    /\ pc[r] = "create_insert"
    /\ lock = r
    /\ LET request == MechaCodeSymbolThinking(request_symbol[r])
           symbol_identifier == to_symbol_identifier(request)
       IN symbols' = IF symbols[symbol_identifier] = NoChan
                     THEN [symbols EXCEPT ![symbol_identifier] = r]
                     ELSE symbols
    /\ lock' = NoReq
    /\ pc' = [pc EXCEPT ![r] = "constructing"]
    /\ UNCHANGED <<request_symbol, lookup_hit, does_exist, snippet, receiver,
                   mailbox, handling, reply, sent, handled, overlap, forwarded_before,
                   dead_before, nonLockerVars>>

\* symbols.insert(symbol_identifier, sender): a sender already registered under
\* the identifier is replaced and dropped; the guard is released
CreateInsert(r) ==
    /\ pc[r] = "create_insert"
    /\ lock = r
    /\ LET request == MechaCodeSymbolThinking(request_symbol[r])
           symbol_identifier == to_symbol_identifier(request)
       IN symbols' = [symbols EXCEPT ![symbol_identifier] = r]
    /\ lock' = NoReq
    /\ pc' = [pc EXCEPT ![r] = "constructing"]
    /\ UNCHANGED <<request_symbol, lookup_hit, does_exist, snippet, receiver,
                   mailbox, handling, reply, sent, handled, overlap, forwarded_before,
                   dead_before, nonLockerVars>>

\* the replies of the messages queued in a channel whose receiver is dropped
DropQueued(c) ==
    [q \in Reqs |->
        IF \E i \in 1..Len(mailbox[c]) : mailbox[c][i] = q
        THEN "dropped" ELSE reply[q]]

\* create_symbol_agent that takes the sender out of the registry again when
\* Symbol::new fails
SymbolNewUnregisters(r, ok) ==
    /\ pc[r] = "constructing"
    /\ IF ok
       THEN /\ receiver' = [receiver EXCEPT ![r] = "running"]
            /\ UNCHANGED <<mailbox, reply, symbols>>
       ELSE /\ receiver' = [receiver EXCEPT ![r] = "dropped"]
            /\ mailbox' = [mailbox EXCEPT ![r] = <<>>]
            /\ reply' = DropQueued(r)
            /\ symbols' = [id \in SymbolIdentifier |->
                              IF symbols[id] = r THEN NoChan ELSE symbols[id]]
    /\ pc' = [pc EXCEPT ![r] = "forward_wait"]
    /\ UNCHANGED <<request_symbol, lookup_hit, does_exist, snippet,
                   lock, handling, sent, handled, overlap, forwarded_before,
                   dead_before, nonLockerVars>>

\* Symbol::new(..).await? returns: Ok spawns symbol.run(receiver); Err returns
\* early, dropping the receiver with what is queued in it, and the caller
\* ignores the error (let _ = ..)
SymbolNew(r, ok) ==
    /\ pc[r] = "constructing"
    /\ IF ok
       THEN /\ receiver' = [receiver EXCEPT ![r] = "running"]
            /\ UNCHANGED <<mailbox, reply>>
       ELSE /\ receiver' = [receiver EXCEPT ![r] = "dropped"]
            /\ mailbox' = [mailbox EXCEPT ![r] = <<>>]
            /\ reply' = DropQueued(r)
    /\ pc' = [pc EXCEPT ![r] = "forward_wait"]
    /\ UNCHANGED <<request_symbol, lookup_hit, does_exist, snippet, symbols,
                   lock, handling, sent, handled, overlap, forwarded_before,
                   dead_before, nonLockerVars>>

(* ------------------------------------------------------------------ *)
(* process_request, the forwarding block                               *)
(* ------------------------------------------------------------------ *)

\* self.symbols.lock().await of the last block: the mutex is acquired
ForwardLock(r) ==
    /\ pc[r] = "forward_wait"
    /\ lock = NoReq
    /\ lock' = r
    /\ pc' = [pc EXCEPT ![r] = "forward"]
    /\ UNCHANGED <<request_symbol, lookup_hit, does_exist, snippet, symbols,
                   receiver, mailbox, handling, reply, sent, handled, overlap, forwarded_before,
                   dead_before, nonLockerVars>>

\* the forwarding block with the send left out: the pair is dropped
ForwardNoSend(r) ==
    /\ pc[r] = "forward"
    /\ lock = r
    /\ reply' = DropSender(r)
    /\ lock' = NoReq
    /\ pc' = [pc EXCEPT ![r] = "done"]
    /\ UNCHANGED <<request_symbol, lookup_hit, does_exist, snippet, symbols,
                   receiver, mailbox, sent, handling, handled, overlap,
                   forwarded_before,
                   dead_before, nonLockerVars>>

\* the forwarding block with the send unwrapped: a send into a channel whose
\* receiver is dropped panics
ForwardUnwrapsSend(r) ==
    /\ pc[r] = "forward"
    /\ lock = r
    /\ LET symbol == symbols[request_symbol[r]]
       IN IF symbol # NoChan /\ receiver[symbol] \in {"held", "running"}
          THEN /\ mailbox' = [mailbox EXCEPT ![symbol] = Append(@, r)]
               /\ sent' = Append(sent, <<r, symbol>>)
               /\ reply' = reply
               /\ pc' = [pc EXCEPT ![r] = "done"]
          ELSE /\ reply' = DropSender(r)
               /\ pc' = [pc EXCEPT ![r] = IF symbol # NoChan THEN "panicked" ELSE "done"]
               /\ UNCHANGED <<mailbox, sent>>
    /\ lock' = NoReq
    /\ UNCHANGED <<request_symbol, lookup_hit, does_exist, snippet, symbols,
                   receiver, handling, handled, overlap, forwarded_before,
                   dead_before, nonLockerVars>>

\* if let Some(symbol) = ..get(&symbol_identifier) { let _ = symbol.send(..) }:
\* the pair is queued when the receiver of the registered channel is alive;
\* otherwise the pair, and with it the one-shot sender, is dropped
Forward(r) ==
    /\ pc[r] = "forward"
    /\ lock = r
    /\ LET symbol == symbols[request_symbol[r]]
       IN IF symbol # NoChan /\ receiver[symbol] \in {"held", "running"}
          THEN /\ mailbox' = [mailbox EXCEPT ![symbol] = Append(@, r)]
               /\ sent' = Append(sent, <<r, symbol>>)
               /\ reply' = reply
          ELSE /\ reply' = DropSender(r)
               /\ UNCHANGED <<mailbox, sent>>
    /\ lock' = NoReq
    /\ pc' = [pc EXCEPT ![r] = "done"]
    /\ UNCHANGED <<request_symbol, lookup_hit, does_exist, snippet, symbols,
                   receiver, handling, handled, overlap, forwarded_before,
                   dead_before, nonLockerVars>>

(* ------------------------------------------------------------------ *)
(* Symbol::run, the message loop of a spawned actor                    *)
(* ------------------------------------------------------------------ *)

\* the actor takes the next message of its mailbox and begins handling it
SymbolRunRecv(c) ==
    /\ receiver[c] = "running"
    /\ handling[c] = NoReq
    /\ mailbox[c] # <<>>
    /\ handling' = [handling EXCEPT ![c] = Head(mailbox[c])]
    /\ mailbox' = [mailbox EXCEPT ![c] = Tail(@)]
    /\ handled' = Append(handled, Head(mailbox[c]))
    /\ UNCHANGED <<pc, request_symbol, lookup_hit, does_exist, snippet, symbols,
                   lock, receiver, reply, sent, overlap, forwarded_before,
                   dead_before, nonLockerVars>>

\* the actor replies on the one-shot channel of the message it is handling
SymbolRunReply(c) ==
    /\ handling[c] # NoReq
    /\ reply' = [reply EXCEPT ![handling[c]] = "response"]
    /\ handling' = [handling EXCEPT ![c] = NoReq]
    /\ UNCHANGED <<pc, request_symbol, lookup_hit, does_exist, snippet, symbols,
                   lock, receiver, mailbox, sent, handled, overlap, forwarded_before,
                   dead_before, nonLockerVars>>

\* recv() yields None once the mailbox is empty and every sender is dropped:
\* the loop ends and the actor terminates
SymbolRunEnd(c) ==
    /\ receiver[c] = "running"
    /\ handling[c] = NoReq
    /\ mailbox[c] = <<>>
    /\ ~SenderAlive(c)
    /\ receiver' = [receiver EXCEPT ![c] = "terminated"]
    /\ UNCHANGED <<pc, request_symbol, lookup_hit, does_exist, snippet, symbols,
                   lock, mailbox, handling, reply, sent, handled, overlap, forwarded_before,
                   dead_before, nonLockerVars>>

(* ------------------------------------------------------------------ *)
(* Specification                                                       *)
(* ------------------------------------------------------------------ *)

Next ==
    \/ \E r \in Reqs, id \in SymbolIdentifier : ProcessRequestCall(r, id)
    \/ \E r \in Reqs : LookupLock(r)
    \/ \E r \in Reqs : Lookup(r)
    \/ \E r \in Reqs, result \in SnippetResults : FindSnippet(r, result)
    \/ \E r \in Reqs : CreateLock(r)
    \/ \E r \in Reqs : CreateInsert(r)
    \/ \E r \in Reqs, ok \in BOOLEAN : SymbolNew(r, ok)
    \/ \E r \in Reqs : ForwardLock(r)
    \/ \E r \in Reqs : Forward(r)
    \/ \E c \in Chans : SymbolRunRecv(c)
    \/ \E c \in Chans : SymbolRunReply(c)
    \/ \E c \in Chans : SymbolRunEnd(c)

Spec == InitAll /\ [][Next]_vars

TypeOK ==
    /\ pc \in [Reqs -> {"idle", "lookup_wait", "lookup", "resolving", "create_wait",
                        "create_insert", "constructing", "forward_wait", "forward",
                        "done", "panicked"}]
    /\ request_symbol \in [Reqs -> SymbolIdentifier \cup {NoIdentifier}]
    /\ lookup_hit \in [Reqs -> BOOLEAN]
    /\ does_exist \in [Reqs -> BOOLEAN]
    /\ snippet \in [Reqs -> SnippetResults \cup {"none"}]
    /\ symbols \in [SymbolIdentifier -> Chans \cup {NoChan}]
    /\ lock \in Reqs \cup {NoReq}
    /\ receiver \in [Chans -> {"none", "held", "running", "terminated", "dropped"}]
    /\ mailbox \in [Chans -> Seq(Reqs)]
    /\ handling \in [Chans -> Reqs \cup {NoReq}]
    /\ reply \in [Reqs -> {"pending", "response", "dropped"}]
    /\ sent \in Seq(Reqs \X Chans)
    /\ handled \in Seq(Reqs)
    /\ overlap \subseteq SUBSET Reqs
    /\ forwarded_before \in [Reqs -> SUBSET Reqs]
    /\ dead_before \in [Reqs -> SUBSET Chans]

(* ------------------------------------------------------------------ *)
(* Helpers of the properties                                           *)
(* ------------------------------------------------------------------ *)

\* the calls made so far
Called == { r \in Reqs : pc[r] # "idle" }

\* the channels made for an identifier whose actor was constructed and spawned
Spawned(id) ==
    { c \in Chans : request_symbol[c] = id /\ receiver[c] \in {"running", "terminated"} }

\* the channels made for an identifier whose actor is spawned and not terminated
Live(id) == { c \in Chans : request_symbol[c] = id /\ receiver[c] = "running" }

\* the successful sends of call r
SendsOf(r) == { i \in 1..Len(sent) : sent[i][1] = r }

\* the place of call r in the order in which handling began (0: not begun)
HandledAt(r) ==
    IF \E i \in 1..Len(handled) : handled[i] = r
    THEN CHOOSE i \in 1..Len(handled) : handled[i] = r
    ELSE 0

\* call r is past its first lookup
LookedUp(r) == pc[r] \notin {"idle", "lookup_wait", "lookup"}

\* call r missed the lookup for an identifier that carries no file path
NoPathMiss(r) ==
    LookedUp(r) /\ ~lookup_hit[r] /\ request_symbol[r].fs_file_path = NoPath

\* nothing is in flight: no call is under way, no mailbox holds a message and
\* no actor is handling one
Quiet ==
    /\ \A r \in Reqs : pc[r] \in {"idle", "done", "panicked"}
    /\ \A c \in Chans : mailbox[c] = <<>> /\ handling[c] = NoReq

(* ------------------------------------------------------------------ *)
(* Properties                                                          *)
(* ------------------------------------------------------------------ *)

\* C1: over any sequence of process_request calls for one SymbolIdentifier
\* whose resolution succeeds, an actor is constructed and spawned at most once.
C1_CreatedOnce == \A id \in SymbolIdentifier : Cardinality(Spawned(id)) <= 1

\* C2: in every reachable state there is at most one live actor (spawned and
\* not terminated) per SymbolIdentifier.
C2_AtMostOneLive == \A id \in SymbolIdentifier : Cardinality(Live(id)) <= 1

\* C3: two calls for one identifier that both started before either had
\* registered a mailbox, and whose resolution succeeded, have both been queued
\* in the mailbox of a spawned actor and both been answered once nothing is
\* left in flight.
C3_OverlapBothAnswered ==
    \A r1 \in Reqs, r2 \in Reqs :
        ( /\ {r1, r2} \in overlap
          /\ r1 # r2
          /\ snippet[r1] = "Ok" /\ snippet[r2] = "Ok"
          /\ Quiet )
        => \A r \in {r1, r2} :
              /\ \E i \in SendsOf(r) :
                    receiver[sent[i][2]] \in {"running", "terminated"}
              /\ reply[r] = "response"

\* C4: when R1 was forwarded before R2 was given to process_request for the
\* same identifier, the handling of R1 begins before the handling of R2.
C4_FifoPerIdentifier ==
    \A r2 \in Reqs : \A r1 \in forwarded_before[r2] :
        ( /\ request_symbol[r1] = request_symbol[r2]
          /\ HandledAt(r2) # 0 )
        => HandledAt(r1) # 0 /\ HandledAt(r1) < HandledAt(r2)

\* C5: no two requests addressed to the same SymbolIdentifier are being
\* handled at the same time.
C5_SerializedPerIdentifier ==
    \A c1 \in Chans, c2 \in Chans :
        ( /\ c1 # c2
          /\ handling[c1] # NoReq
          /\ handling[c2] # NoReq )
        => request_symbol[handling[c1]] # request_symbol[handling[c2]]

\* C6: a call whose lookup finds a mailbox registered for its identifier goes
\* on to forward: it does not call find_snippet_for_symbol and makes no new
\* mailbox to replace the registered one.
C6_HitForwardsOnly ==
    \A r \in Reqs :
        lookup_hit[r] =>
            /\ pc[r] \in {"forward_wait", "forward", "done"}
            /\ snippet[r] = "none"
            /\ receiver[r] = "none"

\* the only call for its identifier, with a file path, a lookup miss, a
\* successful resolution and a successful construction, has returned
C7_Case(r) ==
    /\ pc[r] = "done"
    /\ request_symbol[r].fs_file_path # NoPath
    /\ ~lookup_hit[r]
    /\ snippet[r] = "Ok"
    /\ receiver[r] \in {"running", "terminated"}
    /\ \A q \in Called \ {r} : request_symbol[q] # request_symbol[r]

\* C7: when the single call for an unregistered identifier with a file path
\* returns after a successful resolution and construction, the registry holds
\* the mailbox made by that call, exactly one actor has been spawned for the
\* identifier, and the pair has been queued exactly once, in that mailbox.
C7_SingleRequestCreatesOnce ==
    \A r \in Reqs :
        C7_Case(r) =>
            /\ symbols[request_symbol[r]] = r
            /\ Spawned(request_symbol[r]) = {r}
            /\ Cardinality(SendsOf(r)) = 1
            /\ \A i \in SendsOf(r) : sent[i] = <<r, r>>

\* a state where the case of C7 has happened
C7_Witness == \E r \in Reqs : C7_Case(r)

\* C8: a call for an identifier with no file path and no registered actor does
\* not panic, and its caller receives an UnresolvableSymbol error.
C8_NoPathReturnsError ==
    \A r \in Reqs :
        NoPathMiss(r) => pc[r] # "panicked" /\ reply[r] = "UnresolvableSymbol"

\* C9: when find_snippet_for_symbol fails on a lookup miss, the call does not
\* panic and the failure is the value on the caller's reply channel.
C9_ResolutionFailureReplied ==
    \A r \in Reqs :
        snippet[r] \in SnippetErrors => pc[r] # "panicked" /\ reply[r] = snippet[r]

\* call r failed to resolve its symbol: no snippet, or no file path
C10_Case(r) == snippet[r] \in SnippetErrors \/ NoPathMiss(r)

\* C10: a call that fails to resolve its symbol has made no channel, spawned
\* no actor and registered nothing: no registry entry is of its making.
C10_FailedResolutionNoEffect ==
    \A r \in Reqs :
        C10_Case(r) =>
            /\ receiver[r] = "none"
            /\ \A id \in SymbolIdentifier : symbols[id] # r

\* a state where a call has failed to resolve while another call's mailbox is
\* registered
C10_Witness ==
    \E r \in Reqs : C10_Case(r) /\ \E id \in SymbolIdentifier : symbols[id] # NoChan

\* C11: the one-shot reply channel of a request given to process_request is
\* never dropped without a value: every caller receives a response or an
\* explicit error value.
C11_ReplyNeverDropped == \A r \in Reqs : reply[r] # "dropped"

(* ------------------------------------------------------------------ *)
(* ToolBroker::new, ToolBroker::with_mcp                               *)
(* ------------------------------------------------------------------ *)

\* ToolBroker::new: every static tool type is inserted with its implementation
ToolBrokerNew ==
    /\ b_pc = "start"
    /\ tools' = [tt \in ToolTypes |->
                    IF tt.kind \in StaticToolKinds
                    THEN Implementation("", tt) ELSE NoTool]
    /\ b_pc' = "built"
    /\ UNCHANGED <<mcp_config, clients, server_name, tool_infos, known_tool_names,
                   with_mcp_result, inv_pc, inv_input, inv_tools_before, inv_calls,
                   inv_tool_result, inv_result, inv_count, tb_cap, tb_send_failed,
                   tb_result, ui_open, ui_events, nonBrokerVars>>

\* with_mcp returns Err: self, and with it the registry, is dropped
WithMcpFails ==
    /\ b_pc' = "failed"
    /\ with_mcp_result' = "Err"
    /\ tools' = EmptyRegistry

\* with_mcp returns Ok(self)
WithMcpSucceeds ==
    /\ b_pc' = "ready"
    /\ with_mcp_result' = "Ok"
    /\ tools' = tools

\* setup_mcp_clients: the servers of the configuration that spawn and
\* initialize; a server that fails to is skipped
setup_mcp_clients(config) ==
    { sv \in Servers : config[sv].status \in {"list_failed", "ok"} }

\* with_mcp when setup_mcp_clients()? fails: no home directory, or a
\* configuration that cannot be read or parsed
WithMcpSetupFails ==
    /\ b_pc = "built"
    /\ inv_pc # "in_tool"
    /\ WithMcpFails
    /\ UNCHANGED <<mcp_config, clients, server_name, tool_infos, known_tool_names,
                   inv_pc, inv_input, inv_tools_before, inv_calls, inv_tool_result,
                   inv_result, inv_count, tb_cap, tb_send_failed, tb_result,
                   ui_open, ui_events, nonBrokerVars>>

\* with_mcp up to the loop over the clients: without clients (no configuration
\* file, no server, or none that initialized) it returns Ok(self)
WithMcpSetup(config) ==
    /\ b_pc = "built"
    /\ inv_pc # "in_tool"
    /\ mcp_config' = config
    /\ clients' = setup_mcp_clients(config)
    /\ IF setup_mcp_clients(config) = {}
       THEN WithMcpSucceeds
       ELSE /\ b_pc' = "mcp_loop"
            /\ UNCHANGED <<with_mcp_result, tools>>
    /\ UNCHANGED <<server_name, tool_infos, known_tool_names,
                   inv_pc, inv_input, inv_tools_before, inv_calls, inv_tool_result,
                   inv_result, inv_count, tb_cap, tb_send_failed, tb_result,
                   ui_open, ui_events, nonBrokerVars>>

\* the loop over the clients goes on with the next server, or with_mcp returns
\* Ok(self) when none is left
NextClient(remaining) ==
    IF remaining = {}
    THEN WithMcpSucceeds
    ELSE /\ b_pc' = "mcp_loop"
         /\ UNCHANGED <<with_mcp_result, tools>>

\* a list_tools failure that is skipped like a failure to spawn: the loop goes
\* on with the next server
WithMcpListToolsSkipsFailure(sv) ==
    /\ b_pc = "mcp_loop"
    /\ sv \in clients
    /\ clients' = clients \ {sv}
    /\ server_name' = sv
    /\ IF mcp_config[sv].status = "list_failed"
       THEN /\ NextClient(clients \ {sv})
            /\ tool_infos' = <<>>
       ELSE /\ tool_infos' = mcp_config[sv].listing
            /\ IF mcp_config[sv].listing = <<>>
               THEN NextClient(clients \ {sv})
               ELSE /\ b_pc' = "registering"
                    /\ UNCHANGED <<with_mcp_result, tools>>
    /\ UNCHANGED <<mcp_config, known_tool_names,
                   inv_pc, inv_input, inv_tools_before, inv_calls, inv_tool_result,
                   inv_result, inv_count, tb_cap, tb_send_failed, tb_result,
                   ui_open, ui_events, nonBrokerVars>>

\* client.list_tools().await? of the next server of the map, in the map's
\* arbitrary order
WithMcpListTools(sv) ==
    /\ b_pc = "mcp_loop"
    /\ sv \in clients
    /\ clients' = clients \ {sv}
    /\ server_name' = sv
    /\ IF mcp_config[sv].status = "list_failed"
       THEN /\ WithMcpFails
            /\ tool_infos' = <<>>
       ELSE /\ tool_infos' = mcp_config[sv].listing
            /\ IF mcp_config[sv].listing = <<>>
               THEN NextClient(clients \ {sv})
               ELSE /\ b_pc' = "registering"
                    /\ UNCHANGED <<with_mcp_result, tools>>
    /\ UNCHANGED <<mcp_config, known_tool_names,
                   inv_pc, inv_input, inv_tools_before, inv_calls, inv_tool_result,
                   inv_result, inv_count, tb_cap, tb_send_failed, tb_result,
                   ui_open, ui_events, nonBrokerVars>>

\* registration under the plain tool type of the listed name when there is
\* one: a server that lists "OpenFile" replaces the tool of ToolBroker::new
WithMcpRegisterStaticName ==
    /\ b_pc = "registering"
    /\ tool_infos # <<>>
    /\ LET name == Head(tool_infos)
           key == IF name \in StaticToolKinds
                  THEN StaticToolType(name) ELSE DynamicMCPToolType(name)
       IN IF known_tool_names[name] # ""
          THEN /\ WithMcpFails
               /\ tool_infos' = <<>>
               /\ UNCHANGED known_tool_names
          ELSE /\ known_tool_names' = [known_tool_names EXCEPT ![name] = server_name]
               /\ tool_infos' = Tail(tool_infos)
               /\ IF Tail(tool_infos) # <<>>
                  THEN /\ b_pc' = "registering"
                       /\ with_mcp_result' = with_mcp_result
                  ELSE IF clients = {}
                  THEN /\ b_pc' = "ready"
                       /\ with_mcp_result' = "Ok"
                  ELSE /\ b_pc' = "mcp_loop"
                       /\ with_mcp_result' = with_mcp_result
               /\ tools' = [tools EXCEPT ![key] =
                               Implementation(server_name, DynamicMCPToolType(name))]
    /\ UNCHANGED <<mcp_config, clients, server_name,
                   inv_pc, inv_input, inv_tools_before, inv_calls, inv_tool_result,
                   inv_result, inv_count, tb_cap, tb_send_failed, tb_result,
                   ui_open, ui_events, nonBrokerVars>>

\* registration without the check of known_tool_names: a tool name seen before
\* is registered again, over the earlier registration
WithMcpRegisterOverride ==
    /\ b_pc = "registering"
    /\ tool_infos # <<>>
    /\ LET name == Head(tool_infos)
       IN /\ known_tool_names' = [known_tool_names EXCEPT ![name] = server_name]
          /\ tool_infos' = Tail(tool_infos)
          /\ IF Tail(tool_infos) # <<>>
             THEN /\ b_pc' = "registering"
                  /\ with_mcp_result' = with_mcp_result
             ELSE IF clients = {}
             THEN /\ b_pc' = "ready"
                  /\ with_mcp_result' = "Ok"
             ELSE /\ b_pc' = "mcp_loop"
                  /\ with_mcp_result' = with_mcp_result
          /\ tools' = [tools EXCEPT ![DynamicMCPToolType(name)] =
                          Implementation(server_name, DynamicMCPToolType(name))]
    /\ UNCHANGED <<mcp_config, clients, server_name,
                   inv_pc, inv_input, inv_tools_before, inv_calls, inv_tool_result,
                   inv_result, inv_count, tb_cap, tb_send_failed, tb_result,
                   ui_open, ui_events, nonBrokerVars>>

\* one pass of the loop over list_res.tools: a name already in
\* known_tool_names bails; otherwise the name is recorded and a DynamicMCPTool
\* is inserted under ToolType::DynamicMCPTool(name)
WithMcpRegister ==
    /\ b_pc = "registering"
    /\ tool_infos # <<>>
    /\ LET name == Head(tool_infos)
       IN IF known_tool_names[name] # ""
          THEN /\ WithMcpFails
               /\ tool_infos' = <<>>
               /\ UNCHANGED known_tool_names
          ELSE /\ known_tool_names' = [known_tool_names EXCEPT ![name] = server_name]
               /\ tool_infos' = Tail(tool_infos)
               /\ IF Tail(tool_infos) # <<>>
                  THEN /\ b_pc' = "registering"
                       /\ with_mcp_result' = with_mcp_result
                  ELSE IF clients = {}
                  THEN /\ b_pc' = "ready"
                       /\ with_mcp_result' = "Ok"
                  ELSE /\ b_pc' = "mcp_loop"
                       /\ with_mcp_result' = with_mcp_result
               /\ tools' = [tools EXCEPT ![DynamicMCPToolType(name)] =
                               Implementation(server_name, DynamicMCPToolType(name))]
    /\ UNCHANGED <<mcp_config, clients, server_name,
                   inv_pc, inv_input, inv_tools_before, inv_calls, inv_tool_result,
                   inv_result, inv_count, tb_cap, tb_send_failed, tb_result,
                   ui_open, ui_events, nonBrokerVars>>

(* ------------------------------------------------------------------ *)
(* ToolBroker::invoke and the ToolBox capability calls                 *)
(* ------------------------------------------------------------------ *)

\* a broker exists that callers can invoke
BrokerProduced == b_pc \in {"built", "ready"}

\* a new invoke call may begin
MayInvoke ==
    /\ BrokerProduced
    /\ inv_pc # "in_tool"
    /\ inv_count < MaxInvokes

\* invoke with the lookup under a fixed tool type: every input is dispatched to
\* the implementation registered for OpenFile
InvokeBeginWrongTool(input) ==
    /\ inv_input' = input
    /\ inv_tools_before' = tools
    /\ inv_count' = inv_count + 1
    /\ inv_tool_result' = NoResult
    /\ inv_calls' = <<tools[StaticToolType("OpenFile")]>>
    /\ inv_result' = NoResult
    /\ inv_pc' = "in_tool"
    /\ UNCHANGED tools

\* invoke that answers a missing tool type with the editor's error instead of
\* ToolError::MissingTool
InvokeBeginMissMasked(input) ==
    /\ inv_input' = input
    /\ inv_tools_before' = tools
    /\ inv_count' = inv_count + 1
    /\ inv_tool_result' = NoResult
    /\ LET tool == tools[tool_type(input)]
       IN IF tool # NoTool
          THEN /\ inv_calls' = <<tool>>
               /\ inv_result' = NoResult
               /\ inv_pc' = "in_tool"
          ELSE /\ inv_calls' = <<>>
               /\ inv_result' = ToolResult(FALSE, "ErrorCommunicatingWithEditor", NoTool)
               /\ inv_pc' = "returned"
    /\ UNCHANGED tools

\* invoke up to the await: self.tools.get(&input.tool_type()); Some(tool)
\* calls tool.invoke(input), None returns Err(ToolError::MissingTool)
InvokeBegin(input) ==
    /\ inv_input' = input
    /\ inv_tools_before' = tools
    /\ inv_count' = inv_count + 1
    /\ inv_tool_result' = NoResult
    /\ LET tool == tools[tool_type(input)]
       IN IF tool # NoTool
          THEN /\ inv_calls' = <<tool>>
               /\ inv_result' = NoResult
               /\ inv_pc' = "in_tool"
          ELSE /\ inv_calls' = <<>>
               /\ inv_result' = MissingTool
               /\ inv_pc' = "returned"
    /\ UNCHANGED tools

\* the ToolBox getter applied to the broker's result:
\* .map_err(SymbolError::ToolError)?.get_x().ok_or(SymbolError::WrongToolOutput)
ToolBoxResult(cap, result) ==
    IF ~result.ok THEN "ToolError"
    ELSE IF result.value = CapabilityOutput(cap) THEN "Ok"
    ELSE "WrongToolOutput"

\* what the capability call has returned once the broker has returned `result`
ToolBoxReturn(cap, pc_after, result) ==
    IF cap # NoCapability /\ pc_after = "returned"
    THEN ToolBoxResult(cap, result)
    ELSE "None"

\* a caller invokes the broker directly
BrokerInvoke(input) ==
    /\ MayInvoke
    /\ InvokeBegin(input)
    /\ tb_cap' = NoCapability
    /\ tb_send_failed' = FALSE
    /\ tb_result' = "None"
    /\ UNCHANGED <<b_pc, mcp_config, clients, server_name, tool_infos,
                   known_tool_names, with_mcp_result, ui_open, ui_events,
                   nonBrokerVars>>

\* a capability call that gives up when the event cannot be sent: with the
\* receiver of ui_events dropped it returns an error without invoking the broker
ToolBoxCallFailsOnClosed(cap) ==
    /\ MayInvoke
    /\ tb_cap' = cap
    /\ tb_send_failed' = ~ui_open
    /\ inv_count' = inv_count + 1
    /\ inv_tools_before' = tools
    /\ inv_tool_result' = NoResult
    /\ inv_result' = NoResult
    /\ IF ui_open
       THEN /\ ui_events' = ui_events + 1
            /\ inv_input' = CapabilityInput(cap)
            /\ inv_calls' = <<tools[tool_type(CapabilityInput(cap))]>>
            /\ inv_pc' = "in_tool"
            /\ tb_result' = "None"
       ELSE /\ ui_events' = ui_events
            /\ inv_input' = NoInput
            /\ inv_calls' = <<>>
            /\ inv_pc' = "returned"
            /\ tb_result' = "ToolError"
    /\ UNCHANGED <<b_pc, tools, mcp_config, clients, server_name, tool_infos,
                   known_tool_names, with_mcp_result, ui_open, nonBrokerVars>>

\* file_open, go_to_definition, get_lsp_diagnostics, apply_edits_to_editor up
\* to the await: let _ = self.ui_events.send(..) delivers the event when the
\* receiver is alive and its failure is ignored; then self.tools.invoke(request)
ToolBoxCall(cap) ==
    /\ MayInvoke
    /\ tb_cap' = cap
    /\ tb_send_failed' = ~ui_open
    /\ ui_events' = IF ui_open THEN ui_events + 1 ELSE ui_events
    /\ InvokeBegin(CapabilityInput(cap))
    /\ tb_result' = ToolBoxReturn(cap, inv_pc', inv_result')
    /\ UNCHANGED <<b_pc, mcp_config, clients, server_name, tool_infos,
                   known_tool_names, with_mcp_result, ui_open, nonBrokerVars>>

\* tool.invoke(input).await returns and invoke returns its result; a capability
\* call then applies its getter
ToolReturns(result) ==
    /\ inv_pc = "in_tool"
    /\ result \in ToolResultsOf(inv_calls[1])
    /\ inv_tool_result' = result
    /\ inv_result' = result
    /\ inv_pc' = "returned"
    /\ tb_result' = ToolBoxReturn(tb_cap, "returned", result)
    /\ UNCHANGED <<b_pc, tools, mcp_config, clients, server_name, tool_infos,
                   known_tool_names, with_mcp_result, inv_input, inv_tools_before,
                   inv_calls, inv_count, tb_cap, tb_send_failed, ui_open, ui_events,
                   nonBrokerVars>>

\* the receiver of ui_events is dropped
UiEventsClose ==
    /\ ui_open
    /\ ui_open' = FALSE
    /\ UNCHANGED <<b_pc, tools, mcp_config, clients, server_name, tool_infos,
                   known_tool_names, with_mcp_result, inv_pc, inv_input,
                   inv_tools_before, inv_calls, inv_tool_result, inv_result,
                   inv_count, tb_cap, tb_send_failed, tb_result, ui_events,
                   nonBrokerVars>>

AllToolResults == UNION { ToolResultsOf(t) : t \in Implementations }

BrokerNext ==
    \/ ToolBrokerNew
    \/ WithMcpSetupFails
    \/ \E config \in [Servers -> ServerBehaviours] : WithMcpSetup(config)
    \/ \E sv \in Servers : WithMcpListTools(sv)
    \/ WithMcpRegister
    \/ \E input \in ToolInputs : BrokerInvoke(input)
    \/ \E cap \in Capabilities : ToolBoxCall(cap)
    \/ \E result \in AllToolResults : ToolReturns(result)
    \/ UiEventsClose

BrokerSpec == InitAll /\ [][BrokerNext]_vars

BrokerTypeOK ==
    /\ b_pc \in {"start", "built", "mcp_loop", "registering", "ready", "failed"}
    /\ tools \in [ToolTypes -> Implementations \cup {NoTool}]
    /\ mcp_config \in [Servers -> ServerBehaviours]
    /\ clients \subseteq Servers
    /\ server_name \in Servers \cup {""}
    /\ tool_infos \in Listings
    /\ known_tool_names \in [McpToolNames -> Servers \cup {""}]
    /\ with_mcp_result \in {"None", "Ok", "Err"}
    /\ inv_pc \in {"idle", "in_tool", "returned"}
    /\ inv_input \in ToolInputs \cup {NoInput}
    /\ inv_calls \in Seq(Implementations)
    /\ inv_result \in AllToolResults \cup {NoResult, MissingTool}
    /\ inv_tool_result \in AllToolResults \cup {NoResult}
    /\ inv_count \in 0..MaxInvokes
    /\ tb_cap \in Capabilities \cup {NoCapability}
    /\ tb_send_failed \in BOOLEAN
    /\ tb_result \in {"None", "Ok", "ToolError", "WrongToolOutput"}
    /\ ui_open \in BOOLEAN
    /\ ui_events \in 0..MaxInvokes

(* ------------------------------------------------------------------ *)
(* Properties of the tool broker                                       *)
(* ------------------------------------------------------------------ *)

\* the implementation registered for the input of the current invoke call when
\* the call began
RegisteredFor(input) == inv_tools_before[tool_type(input)]

\* an invoke call on an input whose tool type is registered has returned
C12_Case ==
    /\ inv_pc = "returned"
    /\ inv_input \in ToolInputs
    /\ RegisteredFor(inv_input) # NoTool

\* C12: invoke on an input whose tool type is registered invokes the
\* implementation registered under that type, once, and no other, and returns
\* what that implementation returned.
C12_InvokeDispatches ==
    C12_Case =>
        /\ inv_calls = <<RegisteredFor(inv_input)>>
        /\ inv_tool_result.by = RegisteredFor(inv_input)
        /\ inv_result = inv_tool_result

\* an invoke call on a registered dynamic tool has returned the tool's error
C12_Witness ==
    /\ C12_Case
    /\ inv_input.variant = "DynamicMCPTool"
    /\ ~inv_result.ok

\* C13: an invoke call on an input whose tool type has no registered
\* implementation returns ToolError::MissingTool at once, invokes no
\* implementation and leaves the registry unchanged.
C13_MissingTool ==
    [][ ( /\ inv_count' = inv_count + 1
          /\ inv_input' \in ToolInputs
          /\ tools[tool_type(inv_input')] = NoTool )
        => ( /\ inv_pc' = "returned"
             /\ inv_result' = MissingTool
             /\ inv_calls' = <<>>
             /\ tools' = tools ) ]_vars

\* an invoke call on a dynamic tool type that no server registered has returned
C13_Witness ==
    /\ inv_pc = "returned"
    /\ b_pc = "ready"
    /\ inv_input \in ToolInputs
    /\ inv_input.variant = "DynamicMCPTool"
    /\ RegisteredFor(inv_input) = NoTool
    /\ inv_result = MissingTool

\* a server whose tools with_mcp can discover: it initialized and lists its tools
Discovers(sv) == mcp_config[sv].status = "ok"

\* two discovered tools have the same name
Conflict ==
    \E sv1 \in Servers, sv2 \in Servers :
        /\ Discovers(sv1) /\ Discovers(sv2)
        /\ \E i \in DOMAIN mcp_config[sv1].listing, j \in DOMAIN mcp_config[sv2].listing :
              /\ sv1 # sv2 \/ i # j
              /\ mcp_config[sv1].listing[i] = mcp_config[sv2].listing[j]

\* C14: when two discovered tools have the same name, with_mcp never returns
\* Ok in whatever order the servers are taken: it goes on until it returns Err,
\* and then no broker is left, with any tool registered.
C14_DuplicateNameFails ==
    Conflict =>
        /\ b_pc # "ready"
        /\ with_mcp_result # "Ok"
        /\ b_pc = "mcp_loop" => clients # {}
        /\ b_pc = "registering" => tool_infos # <<>>
        /\ b_pc = "failed" => with_mcp_result = "Err" /\ tools = EmptyRegistry

\* with_mcp has failed on two servers that list the same tool name
C14_Witness ==
    /\ b_pc = "failed"
    /\ \E sv1 \in Servers, sv2 \in Servers :
          /\ sv1 # sv2
          /\ Discovers(sv1) /\ Discovers(sv2)
          /\ mcp_config[sv1].listing # <<>>
          /\ mcp_config[sv1].listing = mcp_config[sv2].listing

\* C36: with_mcp never removes or replaces a tool of ToolBroker::new: while
\* the broker exists every static tool type maps to the implementation
\* ToolBroker::new gave it, whatever names the servers list, and without an
\* MCP client with_mcp returns the broker with the registry of ToolBroker::new.
C36_StaticToolsKept ==
    /\ b_pc \in {"built", "mcp_loop", "registering", "ready"} =>
          \A k \in StaticToolKinds :
              tools[StaticToolType(k)] = Implementation("", StaticToolType(k))
    /\ (b_pc = "ready" /\ setup_mcp_clients(mcp_config) = {}) =>
          /\ with_mcp_result = "Ok"
          /\ \A tt \in ToolTypes : tt.kind \notin StaticToolKinds => tools[tt] = NoTool

\* with_mcp has succeeded with a server that lists a tool named like a tool
\* type of ToolBroker::new
C36_Witness ==
    /\ b_pc = "ready"
    /\ with_mcp_result = "Ok"
    /\ tools[DynamicMCPToolType("OpenFile")] # NoTool
    /\ tools[StaticToolType("OpenFile")] = Implementation("", StaticToolType("OpenFile"))

\* C37: a server that fails to spawn or initialize is skipped and the tools of
\* the other servers are registered when with_mcp succeeds; a server that
\* initialized and fails to list its tools makes with_mcp fail: it never
\* returns Ok, it goes on until it returns Err, and no broker is left.
C37_SpawnSkippedListFails ==
    /\ b_pc = "ready" =>
          \A sv \in Servers : Discovers(sv) =>
              \A i \in DOMAIN mcp_config[sv].listing :
                  tools[DynamicMCPToolType(mcp_config[sv].listing[i])]
                      = Implementation(sv, DynamicMCPToolType(mcp_config[sv].listing[i]))
    /\ (\E sv \in Servers : mcp_config[sv].status = "list_failed") =>
          /\ b_pc # "ready"
          /\ with_mcp_result # "Ok"
          /\ b_pc = "mcp_loop" => clients # {}
          /\ b_pc = "registering" => tool_infos # <<>>
          /\ b_pc = "failed" => with_mcp_result = "Err" /\ tools = EmptyRegistry

\* with_mcp has succeeded with one server that failed to spawn and one whose
\* tools are registered
C37_Witness ==
    /\ b_pc = "ready"
    /\ \E sv1 \in Servers, sv2 \in Servers :
          /\ mcp_config[sv1].status = "spawn_failed"
          /\ Discovers(sv2)
          /\ Len(mcp_config[sv2].listing) = 2
          /\ \A i \in DOMAIN mcp_config[sv2].listing :
                tools[DynamicMCPToolType(mcp_config[sv2].listing[i])].server = sv2

\* a capability call that emits a UI event has returned
C20_Case == tb_cap # NoCapability /\ inv_pc = "returned"

\* C20: a capability call that emits a UI event invokes the broker with its
\* request and returns what its getter makes of the broker's result, whether
\* the event was delivered or the ui_events channel was closed.
C20_ClosedUiChannelNoEffect ==
    C20_Case =>
        /\ inv_input = CapabilityInput(tb_cap)
        /\ RegisteredFor(inv_input) # NoTool
        /\ inv_calls = <<RegisteredFor(inv_input)>>
        /\ inv_result = inv_tool_result
        /\ tb_result = ToolBoxResult(tb_cap, inv_result)

\* a capability call whose event could not be sent has returned Ok
C20_Witness == C20_Case /\ tb_send_failed /\ tb_result = "Ok"

(* ------------------------------------------------------------------ *)
(* ToolBox::check_code_correctness                                     *)
(* ------------------------------------------------------------------ *)

\* a capability call of the given kind is made
CcRecord(kind) ==
    /\ cc_calls' = [cc_calls EXCEPT ![kind] = @ + 1]
    /\ cc_iter_calls' = [cc_iter_calls EXCEPT ![kind] = @ + 1]

\* check_code_correctness returns: break and Ok(()), or the ? of a failed call
CcReturn(ending, result) ==
    /\ cc_pc' = "done"
    /\ cc_ending' = ending
    /\ cc_result' = result
    /\ cc_returned' = [cc_returned EXCEPT ![ending] = @ \cup {result}]

\* the capability call awaited at each position
CallAt(at) ==
    CASE at \in {"find1", "find2"} -> "find_symbol_to_edit"
      [] at \in {"open1", "open2"} -> "file_open"
      [] at \in {"apply", "apply_fix"} -> "apply_edits_to_editor"
      [] at = "diagnostics" -> "get_lsp_diagnostics"
      [] at = "quick_fixes" -> "get_quick_fix_actions"
      [] at = "select" -> "code_correctness_action_selection"
      [] at = "edit" -> "code_correctness_with_edits"
      [] at = "invoke_quick" -> "invoke_quick_action"
CallPositions ==
    {"find1", "open1", "apply", "find2", "open2", "diagnostics", "quick_fixes",
     "select", "edit", "apply_fix", "invoke_quick"}

\* a call of check_code_correctness: let mut tries = 0
CheckCodeCorrectness ==
    /\ cc_pc \in {"idle", "done"}
    /\ cc_count < MaxCorrectnessCalls
    /\ cc_count' = cc_count + 1
    /\ cc_pc' = "loop"
    /\ tries' = 0
    /\ cc_diagnostics' = FALSE
    /\ cc_quick_fixes' = 0
    /\ cc_index' = 0
    /\ cc_iter_calls' = NoCalls
    /\ cc_calls' = NoCalls
    /\ cc_result' = "None"
    /\ cc_ending' = "None"
    /\ cc_error' = "None"
    /\ invocation_success' = "None"
    /\ UNCHANGED <<cc_returned, nonCorrectnessVars>>

\* a loop head that lets one more iteration through
LoopTopOffByOne ==
    /\ cc_pc = "loop"
    /\ IF tries > max_tries
       THEN /\ CcReturn("exhausted", "Ok")
            /\ UNCHANGED <<tries, cc_diagnostics, cc_quick_fixes, cc_index,
                           cc_iter_calls>>
       ELSE /\ tries' = tries + 1
            /\ cc_pc' = "find1"
            /\ cc_diagnostics' = FALSE
            /\ cc_quick_fixes' = 0
            /\ cc_index' = 0
            /\ cc_iter_calls' = NoCalls
            /\ UNCHANGED <<cc_result, cc_ending, cc_returned>>
    /\ UNCHANGED <<cc_calls, cc_count, cc_error,
                   invocation_success, nonCorrectnessVars>>

\* a loop head that reports the exhausted tries as an error
LoopTopHardFailure ==
    /\ cc_pc = "loop"
    /\ IF tries >= max_tries
       THEN /\ CcReturn("exhausted", "WrongToolOutput")
            /\ UNCHANGED <<tries, cc_diagnostics, cc_quick_fixes, cc_index,
                           cc_iter_calls>>
       ELSE /\ tries' = tries + 1
            /\ cc_pc' = "find1"
            /\ cc_diagnostics' = FALSE
            /\ cc_quick_fixes' = 0
            /\ cc_index' = 0
            /\ cc_iter_calls' = NoCalls
            /\ UNCHANGED <<cc_result, cc_ending, cc_returned>>
    /\ UNCHANGED <<cc_calls, cc_count, cc_error,
                   invocation_success, nonCorrectnessVars>>

\* the head of the loop: if tries >= max_tries { break } and Ok(()), else
\* tries = tries + 1 and the iteration begins
LoopTop ==
    /\ cc_pc = "loop"
    /\ IF tries >= max_tries
       THEN /\ CcReturn("exhausted", "Ok")
            /\ UNCHANGED <<tries, cc_diagnostics, cc_quick_fixes, cc_index,
                           cc_iter_calls>>
       ELSE /\ tries' = tries + 1
            /\ cc_pc' = "find1"
            /\ cc_diagnostics' = FALSE
            /\ cc_quick_fixes' = 0
            /\ cc_index' = 0
            /\ cc_iter_calls' = NoCalls
            /\ UNCHANGED <<cc_result, cc_ending, cc_returned>>
    /\ UNCHANGED <<cc_calls, cc_count, cc_error,
                   invocation_success, nonCorrectnessVars>>

\* self.find_symbol_to_edit(symbol_edited).await returns Ok, before and after
\* the edit is applied
FindSymbolToEdit ==
    /\ cc_pc \in {"find1", "find2"}
    /\ CcRecord("find_symbol_to_edit")
    /\ cc_pc' = IF cc_pc = "find1" THEN "open1" ELSE "open2"
    /\ UNCHANGED <<tries, cc_diagnostics, cc_quick_fixes, cc_index, cc_result,
                   cc_ending, cc_returned, cc_count, cc_error,
                   invocation_success, nonCorrectnessVars>>

\* a first file_open after which the edited code is not applied
FileOpenSkipsApply ==
    /\ cc_pc \in {"open1", "open2"}
    /\ CcRecord("file_open")
    /\ cc_pc' = IF cc_pc = "open1" THEN "find2" ELSE "diagnostics"
    /\ UNCHANGED <<tries, cc_diagnostics, cc_quick_fixes, cc_index, cc_result,
                   cc_ending, cc_returned, cc_count, cc_error,
                   invocation_success, nonCorrectnessVars>>

\* self.file_open(..).await returns Ok, before and after the edit is applied
FileOpen ==
    /\ cc_pc \in {"open1", "open2"}
    /\ CcRecord("file_open")
    /\ cc_pc' = IF cc_pc = "open1" THEN "apply" ELSE "diagnostics"
    /\ UNCHANGED <<tries, cc_diagnostics, cc_quick_fixes, cc_index, cc_result,
                   cc_ending, cc_returned, cc_count, cc_error,
                   invocation_success, nonCorrectnessVars>>

\* self.apply_edits_to_editor(..).await returns Ok: of the edited code, or of
\* the fixed code, which ends the iteration
ApplyEditsToEditor ==
    /\ cc_pc \in {"apply", "apply_fix"}
    /\ CcRecord("apply_edits_to_editor")
    /\ cc_pc' = IF cc_pc = "apply" THEN "find2" ELSE "loop"
    /\ UNCHANGED <<tries, cc_diagnostics, cc_quick_fixes, cc_index, cc_result,
                   cc_ending, cc_returned, cc_count, cc_error,
                   invocation_success, nonCorrectnessVars>>

\* a diagnostics query whose empty answer does not stop the loop
GetLspDiagnosticsNoBreak(non_empty) ==
    /\ cc_pc = "diagnostics"
    /\ CcRecord("get_lsp_diagnostics")
    /\ cc_diagnostics' = non_empty
    /\ cc_pc' = "quick_fixes"
    /\ UNCHANGED <<cc_result, cc_ending, cc_returned>>
    /\ UNCHANGED <<tries, cc_quick_fixes, cc_index, cc_count, cc_error,
                   invocation_success, nonCorrectnessVars>>

\* self.get_lsp_diagnostics(..).await returns Ok; if the diagnostics are empty
\* the loop breaks and the call returns Ok(())
GetLspDiagnostics(non_empty) ==
    /\ cc_pc = "diagnostics"
    /\ CcRecord("get_lsp_diagnostics")
    /\ cc_diagnostics' = non_empty
    /\ IF non_empty
       THEN /\ cc_pc' = "quick_fixes"
            /\ UNCHANGED <<cc_result, cc_ending, cc_returned>>
       ELSE CcReturn("cleared", "Ok")
    /\ UNCHANGED <<tries, cc_quick_fixes, cc_index, cc_count, cc_error,
                   invocation_success, nonCorrectnessVars>>

\* self.get_quick_fix_actions(..).await returns Ok; remove_options() has len
\* options
GetQuickFixActions(len) ==
    /\ cc_pc = "quick_fixes"
    /\ CcRecord("get_quick_fix_actions")
    /\ cc_quick_fixes' = len
    /\ cc_pc' = "select"
    /\ UNCHANGED <<tries, cc_diagnostics, cc_index, cc_result, cc_ending,
                   cc_returned, cc_count, cc_error,
                   invocation_success, nonCorrectnessVars>>

\* if selected_action_index >= quick_fix_actions.len() as i64
SelectsEdit(selected_action_index, len) == selected_action_index >= len

\* self.code_correctness_action_selection(..).await returns Ok with the index,
\* which picks the branch
CodeCorrectnessActionSelection(index) ==
    /\ cc_pc = "select"
    /\ CcRecord("code_correctness_action_selection")
    /\ cc_index' = index
    /\ cc_pc' = IF SelectsEdit(index, cc_quick_fixes) THEN "edit" ELSE "invoke_quick"
    /\ UNCHANGED <<tries, cc_diagnostics, cc_quick_fixes, cc_result, cc_ending,
                   cc_returned, cc_count, cc_error,
                   invocation_success, nonCorrectnessVars>>

\* self.code_correctness_with_edits(..).await returns Ok with the fixed code
CodeCorrectnessWithEdits ==
    /\ cc_pc = "edit"
    /\ CcRecord("code_correctness_with_edits")
    /\ cc_pc' = "apply_fix"
    /\ UNCHANGED <<tries, cc_diagnostics, cc_quick_fixes, cc_index, cc_result,
                   cc_ending, cc_returned, cc_count, cc_error,
                   invocation_success, nonCorrectnessVars>>

\* a quick-fix invocation whose invocation_success = false ends the call with
\* an error
InvokeQuickActionFailsOnFalse(is_success) ==
    /\ cc_pc = "invoke_quick"
    /\ CcRecord("invoke_quick_action")
    /\ invocation_success' = IF is_success THEN "true" ELSE "false"
    /\ IF is_success
       THEN cc_pc' = "loop" /\ UNCHANGED <<cc_result, cc_ending, cc_returned>>
       ELSE CcReturn("failed", "ToolError")
    /\ UNCHANGED <<tries, cc_diagnostics, cc_quick_fixes, cc_index, cc_count,
                   cc_error, nonCorrectnessVars>>

\* self.invoke_quick_action(selected_action_index, &request_id).await returns
\* Ok; both arms of if response.is_success() are empty
InvokeQuickAction(is_success) ==
    /\ cc_pc = "invoke_quick"
    /\ CcRecord("invoke_quick_action")
    /\ invocation_success' = IF is_success THEN "true" ELSE "false"
    /\ cc_pc' = "loop"
    /\ UNCHANGED <<tries, cc_diagnostics, cc_quick_fixes, cc_index, cc_result,
                   cc_ending, cc_returned, cc_count, cc_error, nonCorrectnessVars>>

\* the Err of the awaited capability call is dropped and the loop goes on to
\* its next iteration
CapabilityFailsSwallowed(error) ==
    /\ cc_pc \in CallPositions
    /\ error \in CapabilityErrors(CallAt(cc_pc))
    /\ CcRecord(CallAt(cc_pc))
    /\ cc_error' = error
    /\ cc_pc' = "loop"
    /\ UNCHANGED <<tries, cc_diagnostics, cc_quick_fixes, cc_index, cc_count,
                   cc_result, cc_ending, cc_returned, invocation_success,
                   nonCorrectnessVars>>

\* the awaited capability call returns Err and the ? returns it
CapabilityFails(error) ==
    /\ cc_pc \in CallPositions
    /\ error \in CapabilityErrors(CallAt(cc_pc))
    /\ CcRecord(CallAt(cc_pc))
    /\ cc_error' = error
    /\ CcReturn("failed", error)
    /\ UNCHANGED <<tries, cc_diagnostics, cc_quick_fixes, cc_index, cc_count,
                   invocation_success, nonCorrectnessVars>>

CorrectnessNext ==
    \/ CheckCodeCorrectness
    \/ LoopTop
    \/ FindSymbolToEdit
    \/ FileOpen
    \/ ApplyEditsToEditor
    \/ \E non_empty \in BOOLEAN : GetLspDiagnostics(non_empty)
    \/ \E len \in 0..MaxQuickFixes : GetQuickFixActions(len)
    \/ \E index \in ActionIndexes : CodeCorrectnessActionSelection(index)
    \/ CodeCorrectnessWithEdits
    \/ \E is_success \in BOOLEAN : InvokeQuickAction(is_success)
    \/ \E error \in CorrectnessResults \ {"Ok"} : CapabilityFails(error)

CorrectnessSpec == InitAll /\ [][CorrectnessNext]_vars

CorrectnessTypeOK ==
    /\ cc_pc \in {"idle", "loop", "done"} \cup CallPositions
    /\ tries \in 0..(max_tries + 1)
    /\ cc_diagnostics \in BOOLEAN
    /\ cc_quick_fixes \in 0..MaxQuickFixes
    /\ cc_index \in ActionIndexes
    /\ cc_iter_calls \in [CallKinds -> 0..2]
    /\ cc_calls \in [CallKinds -> 0..(2 * (max_tries + 1))]
    /\ cc_result \in CorrectnessResults \cup {"None"}
    /\ cc_ending \in Endings \cup {"None"}
    /\ cc_returned \in [Endings -> SUBSET CorrectnessResults]
    /\ cc_count \in 0..MaxCorrectnessCalls
    /\ cc_error \in (CorrectnessResults \ {"Ok"}) \cup {"None"}
    /\ invocation_success \in {"None", "true", "false"}

(* ------------------------------------------------------------------ *)
(* Properties of check_code_correctness                                *)
(* ------------------------------------------------------------------ *)

\* the current call has returned after its loop ended the given way
Ended(ending) == cc_pc = "done" /\ cc_ending = ending

\* C15: a call in which every diagnostics query returns a non-empty list and no
\* capability call fails ends by exhausting its tries, after exactly 5
\* iterations with 5 diagnostics queries; no call starts a 6th iteration.
C15_ExactlyFiveIterations ==
    /\ tries <= 5
    /\ cc_calls["get_lsp_diagnostics"] <= 5
    /\ Ended("exhausted") =>
          /\ tries = 5
          /\ cc_calls["get_lsp_diagnostics"] = 5
    /\ (cc_pc = "loop" /\ tries = 5) => cc_calls["get_lsp_diagnostics"] = 5

\* a call has ended by exhausting its tries
C15_Witness == Ended("exhausted") /\ cc_calls["get_lsp_diagnostics"] = 5

\* the capability calls that follow non-empty diagnostics in an iteration
AfterDiagnostics ==
    {"get_quick_fix_actions", "code_correctness_action_selection",
     "invoke_quick_action", "code_correctness_with_edits"}

\* C16: the iteration whose diagnostics query returns an empty list is the last
\* one: the call returns Ok there, having made in that iteration no quick-fix
\* listing, no action selection, no quick-fix invocation and no corrective
\* edit, only the one application of the edited code.
C16_EmptyDiagnosticsStops ==
    /\ (cc_iter_calls["get_lsp_diagnostics"] = 1 /\ ~cc_diagnostics /\ cc_ending # "failed")
          => Ended("cleared")
    /\ Ended("cleared") =>
          /\ cc_result = "Ok"
          /\ ~cc_diagnostics
          /\ \A k \in AfterDiagnostics : cc_iter_calls[k] = 0
          /\ cc_iter_calls["apply_edits_to_editor"] = 1
          /\ cc_calls["get_lsp_diagnostics"] = tries

\* a call has returned on empty diagnostics after an iteration that had some
C16_Witness == Ended("cleared") /\ tries = 3 /\ cc_calls["invoke_quick_action"] = 2

\* an iteration with non-empty diagnostics has run to its end
IterationDone == cc_pc = "loop" /\ tries >= 1

\* C17: in an iteration with non-empty diagnostics a quick-fix is invoked iff
\* the selected index lies within the quick-fix list, a corrective edit is
\* generated and applied iff the index is at or beyond its length, and exactly
\* one of the two happens.
C17_IndexSelectsBranch ==
    IterationDone =>
        /\ cc_iter_calls["invoke_quick_action"] = 1
              <=> (0 <= cc_index /\ cc_index < cc_quick_fixes)
        /\ ( /\ cc_iter_calls["code_correctness_with_edits"] = 1
             /\ cc_iter_calls["apply_edits_to_editor"] = 2 )
              <=> cc_index >= cc_quick_fixes
        /\ cc_iter_calls["invoke_quick_action"]
              + cc_iter_calls["code_correctness_with_edits"] = 1

\* C18: a call that exhausts its tries with diagnostics still present returns
\* Ok, not an error.
C18_ExhaustionReturnsOk ==
    Ended("exhausted") => cc_result = "Ok" /\ cc_diagnostics

\* a call has exhausted its tries on quick fixes and edits alike
C18_Witness ==
    /\ Ended("exhausted")
    /\ cc_result = "Ok"
    /\ cc_calls["invoke_quick_action"] >= 1
    /\ cc_calls["code_correctness_with_edits"] >= 1

\* C19: the value returned after the tries are exhausted differs from the
\* value returned when the diagnostics cleared.
C19_ExhaustionDistinguishable ==
    cc_returned["exhausted"] \cap cc_returned["cleared"] = {}

\* C31: if a capability call of an iteration fails, the loop stops there and
\* the call returns that error; no capability call is made after the failure
\* until check_code_correctness is called again.
C31_FailureStopsLoop ==
    /\ [](cc_error # "None" => Ended("failed") /\ cc_result = cc_error)
    /\ [][cc_error # "None" => (cc_calls' = cc_calls \/ cc_error' = "None")]_vars

\* the quick-fix invocation of the second iteration has failed
C31_Witness ==
    /\ Ended("failed")
    /\ cc_error = "WrongToolOutput"
    /\ tries = 2
    /\ cc_calls["invoke_quick_action"] = 2

\* C38: one call makes at most 5 diagnostics queries, at most 5 action
\* selections, at most 5 quick-fix invocations or corrective-edit generations
\* and at most 10 apply-edit calls, and every diagnostics query comes after
\* an apply-edit of the edited code in the same iteration.
C38_CallsBounded ==
    /\ cc_calls["get_lsp_diagnostics"] <= 5
    /\ cc_calls["code_correctness_action_selection"] <= 5
    /\ cc_calls["invoke_quick_action"] + cc_calls["code_correctness_with_edits"] <= 5
    /\ cc_calls["apply_edits_to_editor"] <= 10
    /\ (cc_pc = "diagnostics" \/ cc_iter_calls["get_lsp_diagnostics"] >= 1)
          => cc_iter_calls["apply_edits_to_editor"] >= 1

\* a call has used every try on a corrective edit
C38_Witness ==
    /\ Ended("exhausted")
    /\ cc_calls["get_lsp_diagnostics"] = 5
    /\ cc_calls["code_correctness_with_edits"] = 5
    /\ cc_calls["apply_edits_to_editor"] = 10

\* C39: a quick-fix invocation that completes with invocation_success = false
\* does not end the call with an error: the loop goes to its next iteration,
\* or stops at the cap, as after a successful invocation.
C39_FailedQuickFixGoesOn ==
    /\ (invocation_success \in {"true", "false"} /\ cc_iter_calls["invoke_quick_action"] = 1
          /\ cc_error = "None")
          => (cc_pc = "loop" \/ (Ended("exhausted") /\ cc_result = "Ok"))
    /\ (invocation_success = "false" /\ cc_error = "None") => cc_ending # "failed"

\* after a quick-fix that reported no success the next iteration ran and the
\* diagnostics cleared
C39_Witness ==
    /\ Ended("cleared")
    /\ tries = 2
    /\ invocation_success = "false"
    /\ cc_calls["invoke_quick_action"] = 1

(* ------------------------------------------------------------------ *)
(* Properties of the registry of the symbol router                     *)
(* ------------------------------------------------------------------ *)

\* the identifier create_symbol_agent of call c registers its sender under
RegisteredUnder(c) == to_symbol_identifier(MechaCodeSymbolThinking(request_symbol[c]))

\* the run loop of the actor of channel c has been started
RunLoopStarted(c) == receiver[c] \in {"running", "terminated"}

\* C27: the run loop of an actor is started only after create_symbol_agent has
\* inserted its sender: whenever the loop has been started the call is past
\* the insert and the identifier is in the registry.
C27_InsertBeforeSpawn ==
    \A c \in Chans :
        RunLoopStarted(c) =>
            /\ pc[c] \notin PreInsert \cup {"idle"}
            /\ symbols[RegisteredUnder(c)] # NoChan

\* an actor runs whose sender is the registered one
C27_Witness ==
    \E c \in Chans : receiver[c] = "running" /\ symbols[RegisteredUnder(c)] = c

\* C28: an identifier once in the registry stays in it, and an entry changes
\* only by the insert of create_symbol_agent, made by the holder of the
\* registry lock for the identifier of its request.
C28_RegistryNeverShrinks ==
    [][ \A id \in SymbolIdentifier :
            /\ symbols[id] # NoChan => symbols'[id] # NoChan
            /\ symbols'[id] # symbols[id] =>
                  \E r \in Reqs :
                      /\ lock = r
                      /\ pc[r] = "create_insert"
                      /\ id = RegisteredUnder(r)
                      /\ symbols'[id] = r ]_vars

\* an identifier is still registered after the construction of its actor
\* failed and after a second call registered another identifier
C28_Witness ==
    \E c \in Chans, d \in Chans :
        /\ c # d
        /\ pc[c] = "done" /\ pc[d] = "done"
        /\ receiver[c] = "dropped"
        /\ symbols[RegisteredUnder(c)] = c
        /\ symbols[RegisteredUnder(d)] = d

\* call r is about to send into a registered channel whose receiver is dropped
SendWillFail(r) ==
    /\ pc[r] = "forward"
    /\ symbols[request_symbol[r]] # NoChan
    /\ receiver[symbols[request_symbol[r]]] \notin {"held", "running"}

\* C29: a forward into a registered mailbox whose receiver has been dropped
\* is ignored: process_request returns normally, nothing is queued or sent
\* again, and the registry is unchanged.
C29_FailedSendIgnored ==
    [][ \A r \in Reqs :
            (SendWillFail(r) /\ pc'[r] # "forward") =>
                /\ pc'[r] = "done"
                /\ symbols' = symbols
                /\ mailbox' = mailbox
                /\ sent' = sent ]_vars

\* a call has returned after its send into its own dropped channel failed
C29_Witness ==
    \E r \in Reqs :
        /\ pc[r] = "done"
        /\ symbols[request_symbol[r]] = r
        /\ receiver[r] = "dropped"
        /\ SendsOf(r) = {}

\* C33: if Symbol::new fails and create_symbol_agent returns Err the registry
\* is as it was before the call: it holds no sender whose receiver was dropped
\* without an actor having been started on it.
C33_FailedConstructionUnregistered ==
    \A c \in Chans :
        receiver[c] = "dropped" => \A id \in SymbolIdentifier : symbols[id] # c

\* the positions at which a call holds the registry guard
Holding == {"lookup", "create_insert", "forward"}

\* C34: the registry lock is held only inside the three lock blocks, never
\* while a call awaits find_snippet_for_symbol or Symbol::new, so the holder
\* can always release it and the calls that wait for it are not blocked for
\* good.
C34_LockNotHeldAcrossAwait ==
    /\ \A r \in Reqs : lock = r => pc[r] \in Holding
    /\ \A r \in Reqs : pc[r] \in {"resolving", "constructing"} => lock # r
    /\ (\E r \in Reqs : pc[r] \in {"lookup_wait", "create_wait", "forward_wait"})
          => (lock = NoReq \/ pc[lock] \in Holding)

\* a call made later, for another identifier, has completed and been
\* forwarded while an earlier call is suspended
C34_Witness ==
    \E r, q \in Reqs :
        /\ r < q
        /\ pc[r] \in {"resolving", "constructing"}
        /\ pc[q] = "done"
        /\ request_symbol[q] # request_symbol[r]
        /\ SendsOf(q) # {}

\* call r has returned, its snippet was resolved, and when it was made a
\* channel of its identifier had already lost its receiver
C35_Case(r) ==
    /\ pc[r] = "done"
    /\ snippet[r] = "Ok"
    /\ \E c \in dead_before[r] : request_symbol[c] = request_symbol[r]

\* call r was queued in a mailbox whose receiver has not been dropped
EnqueuedAlive(r) ==
    \E i \in SendsOf(r) : receiver[sent[i][2]] # "dropped"

RECURSIVE ParameterLines(_, _, _)
ParameterLines(props, required_fields, i) ==
    IF i > Len(FieldOrder) THEN <<>>
    ELSE LET field_name == FieldOrder[i]
             rest == ParameterLines(props, required_fields, i + 1)
         IN IF field_name \notin DOMAIN props THEN rest
            ELSE LET data == props[field_name]
                     desc == IF data.description = NoString THEN "" ELSE data.description
                     tpe == IF data.type = NoString THEN "string" ELSE data.type
                     is_required == field_name \in required_fields
                 IN <<[line |-> "parameter", field |-> field_name,
                       marker |-> IF is_required THEN "required" ELSE "optional",
                       desc |-> desc, type |-> tpe]>> \o rest

\* the lines "<{field}>\nvalue\n</{field}>" of the keys from position i on
RECURSIVE UsageLines(_, _)
UsageLines(props, i) ==
    IF i > Len(FieldOrder) THEN <<>>
    ELSE LET rest == UsageLines(props, i + 1)
         IN IF FieldOrder[i] \notin DOMAIN props THEN rest
            ELSE <<[line |-> "field", field |-> FieldOrder[i], marker |-> "",
                    desc |-> "", type |-> ""]>> \o rest

\* a line of fixed text, or an opening or closing tag of the tool name
TextLine(kind, text) ==
    [line |-> kind, field |-> text, marker |-> "", desc |-> "", type |-> ""]

\* generate_schema_usage: the unwrap() of the properties panics when the schema
\* has no "properties" object
generate_schema_usage(tool_name, schema) ==
    IF schema.properties = NoObject THEN Panic
    ELSE <<TextLine("text", "Parameters:")>>
            \o ParameterLines(schema.properties, schema.required, 1)
            \o <<TextLine("text", "Usage:"), TextLine("open", tool_name)>>
            \o UsageLines(schema.properties, 1)
            \o <<TextLine("close", tool_name)>>

\* tool_description: "### {tool_name}\n(mcp server={server_name})\n{description}"
tool_description(tool) ==
    <<TextLine("heading", tool.tool_name), TextLine("server", tool.server_name),
      TextLine("text", tool.description)>>

\* DynamicMCPTool::new with what the server listed for the tool
DynamicMCPToolNew(server, name, desc, schema) ==
    /\ m_pc = "none"
    /\ dyn_tool' = DynamicMCPTool(server, name, desc, schema)
    /\ m_pc' = "created"
    /\ UNCHANGED <<m_input, m_fields, call_tool, m_outcome, m_result, m_count, usage,
                   description, nonMcpVars>>

\* tool_input_format, asked of the tool as it was created
ToolInputFormat ==
    /\ m_pc = "created"
    /\ usage = NoUsage
    /\ usage' = generate_schema_usage(dyn_tool.tool_name, dyn_tool.schema)
    /\ UNCHANGED <<m_pc, dyn_tool, m_input, m_fields, call_tool, m_outcome, m_result, m_count,
                   description, nonMcpVars>>

\* tool_description, asked of the tool as it was created
ToolDescription ==
    /\ m_pc = "created"
    /\ description = NoUsage
    /\ description' = tool_description(dyn_tool)
    /\ UNCHANGED <<m_pc, dyn_tool, m_input, m_fields, call_tool, m_outcome, m_result, m_count,
                   usage, nonMcpVars>>

\* invoke that sends every DynamicMCPTool input to the server, whatever tool
\* name it carries
McpInvokeBeginUnchecked(input, fields) ==
    /\ m_pc \in {"created", "returned"}
    /\ m_count < MaxMcpInvokes
    /\ m_count' = m_count + 1
    /\ m_input' = input
    /\ m_fields' = fields
    /\ m_outcome' = "none"
    /\ IF input.variant # "DynamicMCPTool"
       THEN /\ m_result' = McpResult(FALSE, "WrongToolInput",
                                     DynamicMCPToolType(dyn_tool.tool_name))
            /\ m_pc' = "returned"
            /\ UNCHANGED call_tool
       ELSE /\ call_tool' = Append(call_tool,
                                   [server |-> dyn_tool.server_name,
                                    name |-> input.tool_name,
                                    arguments |-> fields])
            /\ m_result' = NoMcpResult
            /\ m_pc' = "calling"
    /\ UNCHANGED <<dyn_tool, usage, description, nonMcpVars>>

\* invoke that issues the call_tool twice
McpInvokeBeginCallsTwice(input, fields) ==
    /\ m_pc \in {"created", "returned"}
    /\ m_count < MaxMcpInvokes
    /\ m_count' = m_count + 1
    /\ m_input' = input
    /\ m_fields' = fields
    /\ m_outcome' = "none"
    /\ IF input.variant # "DynamicMCPTool"
       THEN /\ m_result' = McpResult(FALSE, "WrongToolInput",
                                     DynamicMCPToolType(dyn_tool.tool_name))
            /\ m_pc' = "returned"
            /\ UNCHANGED call_tool
       ELSE IF input.tool_name # dyn_tool.tool_name
       THEN /\ m_result' = McpResult(FALSE, "InvalidInput", input.tool_name)
            /\ m_pc' = "returned"
            /\ UNCHANGED call_tool
       ELSE /\ call_tool' = call_tool \o
                               << [server |-> dyn_tool.server_name,
                                   name |-> input.tool_name,
                                   arguments |-> fields],
                                  [server |-> dyn_tool.server_name,
                                   name |-> input.tool_name,
                                   arguments |-> fields] >>
            /\ m_result' = NoMcpResult
            /\ m_pc' = "calling"
    /\ UNCHANGED <<dyn_tool, usage, description, nonMcpVars>>

\* DynamicMCPTool::invoke up to the await: an input of another variant returns
\* WrongToolInput, a partial with another tool name returns InvalidInput;
\* otherwise the fields become the arguments of self.client.call_tool
McpInvokeBegin(input, fields) ==
    /\ m_pc \in {"created", "returned"}
    /\ m_count < MaxMcpInvokes
    /\ m_count' = m_count + 1
    /\ m_input' = input
    /\ m_fields' = fields
    /\ m_outcome' = "none"
    /\ IF input.variant # "DynamicMCPTool"
       THEN /\ m_result' = McpResult(FALSE, "WrongToolInput",
                                     DynamicMCPToolType(dyn_tool.tool_name))
            /\ m_pc' = "returned"
            /\ UNCHANGED call_tool
       ELSE IF input.tool_name # dyn_tool.tool_name
       THEN /\ m_result' = McpResult(FALSE, "InvalidInput", input.tool_name)
            /\ m_pc' = "returned"
            /\ UNCHANGED call_tool
       ELSE /\ call_tool' = Append(call_tool,
                                   [server |-> dyn_tool.server_name,
                                    name |-> dyn_tool.tool_name,
                                    arguments |-> fields])
            /\ m_result' = NoMcpResult
            /\ m_pc' = "calling"
    /\ UNCHANGED <<dyn_tool, usage, description, nonMcpVars>>

\* call_tool(..).await returns: an Err becomes ToolError::InvocationError, an
\* Ok is serialized and returned as ToolOutput::MCPIntegration(ToolCall(..))
CallToolReturns(outcome) ==
    /\ m_pc = "calling"
    /\ m_outcome' = outcome
    /\ m_result' =
          IF outcome # "result"
          THEN McpResult(FALSE, "InvocationError", outcome)
          ELSE IF ~to_value(outcome).ok
          THEN McpResult(FALSE, "InvocationError", to_value(outcome).value)
          ELSE McpResult(TRUE, "MCPIntegration", "ToolCall")
    /\ m_pc' = "returned"
    /\ UNCHANGED <<dyn_tool, m_input, m_fields, call_tool, m_count, usage,
                   description, nonMcpVars>>

\* the inputs given to the tool: of its own variant under either tool name, and
\* of another variant
McpInputs ==
    { ToolInput("DynamicMCPTool", n) : n \in McpToolNames } \cup {ToolInput("OpenFile", "")}

McpNext ==
    \/ \E sv \in Servers, n \in McpToolNames, d \in Descriptions, schema \in Schemas :
          DynamicMCPToolNew(sv, n, d, schema)
    \/ ToolInputFormat
    \/ ToolDescription
    \/ \E input \in McpInputs, fields \in {{}, Fields} : McpInvokeBegin(input, fields)
    \/ \E outcome \in CallToolOutcomes : CallToolReturns(outcome)

McpSpec == InitAll /\ [][McpNext]_vars

McpTypeOK ==
    /\ m_pc \in {"none", "created", "calling", "returned"}
    /\ dyn_tool \in { DynamicMCPTool(sv, n, d, schema) :
                         sv \in Servers, n \in McpToolNames, d \in Descriptions,
                         schema \in Schemas } \cup {NoDynTool}
    /\ m_input \in McpInputs \cup {NoInput}
    /\ m_fields \subseteq Fields
    /\ Len(call_tool) <= m_count
    /\ m_outcome \in CallToolOutcomes \cup {"none"}
    /\ m_result.ok \in BOOLEAN
    /\ m_count \in 0..MaxMcpInvokes

(* ------------------------------------------------------------------ *)
(* Properties of DynamicMCPTool                                        *)
(* ------------------------------------------------------------------ *)

\* the input is a DynamicMCPTool partial for this tool
Matching(input) ==
    input.variant = "DynamicMCPTool" /\ input.tool_name = dyn_tool.tool_name

\* C22: an invoke call whose input is of another variant returns
\* ToolError::WrongToolInput, and one whose partial names another tool returns
\* ToolError::InvalidInput; either returns at once and issues no call_tool.
C22_BadInputRejected ==
    [][ (m_count' = m_count + 1 /\ ~Matching(m_input')) =>
            /\ m_pc' = "returned"
            /\ call_tool' = call_tool
            /\ ~m_result'.ok
            /\ m_result'.value = IF m_input'.variant # "DynamicMCPTool"
                                 THEN "WrongToolInput" ELSE "InvalidInput" ]_vars

\* an invoke call with a partial that names another tool has returned
C22_Witness ==
    /\ m_pc = "returned"
    /\ m_input.variant = "DynamicMCPTool"
    /\ m_input.tool_name # dyn_tool.tool_name
    /\ m_result.value = "InvalidInput"
    /\ call_tool = <<>>

\* the call_tool request of the tool with the fields of the current call
OwnCallTool ==
    [server |-> dyn_tool.server_name, name |-> dyn_tool.tool_name,
     arguments |-> m_fields]

LinesOf(text, field_name) ==
    { i \in DOMAIN text : text[i].line = "parameter" /\ text[i].field = field_name }

\* C24: for every tool a server can list, tool_input_format returns, without
\* panicking, a non-empty text in which each property of the schema has one
\* parameter line, marked required iff the schema's required list names it,
\* and tool_description is non-empty.
C24_UsageListsEachProperty ==
    /\ usage # NoUsage =>
          /\ usage # Panic
          /\ Len(usage) > 0
          /\ \A f \in Fields :
                IF f \in DOMAIN dyn_tool.schema.properties
                THEN \E i \in DOMAIN usage :
                        /\ LinesOf(usage, f) = {i}
                        /\ usage[i].marker =
                              IF f \in dyn_tool.schema.required
                              THEN "required" ELSE "optional"
                ELSE LinesOf(usage, f) = {}
    /\ description # NoUsage => Len(description) > 0

(* ------------------------------------------------------------------ *)
(* OllamaClient::stream_completion                                     *)
(* ------------------------------------------------------------------ *)

\* stream_completion returns Err(error) through a ?
StreamFails(error) ==
    /\ o_pc' = "done"
    /\ o_result' =
          CompletionResult(FALSE, LLMClientCompletionResponse(EmptyString, NoDelta), error)

\* stream_completion up to the loop: from_request()? fails on a model Ollama
\* does not serve, send().await? on a failed request; otherwise
\* buffered_string = ""
StreamCompletion(outcome) ==
    /\ o_pc = "idle"
    /\ IF outcome = "Ok"
       THEN /\ o_pc' = "streaming"
            /\ UNCHANGED o_result
       ELSE StreamFails(outcome)
    /\ buffered_string' = EmptyString
    /\ UNCHANGED <<chunks, o_sent, o_open, nonOllamaVars>>

\* a pass of the loop that sends the delta in place of the answer so far
ChunkSendsDelta(response) ==
    /\ o_pc = "streaming"
    /\ Len(chunks) < MaxChunks
    /\ chunks' = Append(chunks, response)
    /\ buffered_string' = buffered_string \o response
    /\ IF o_open
       THEN /\ o_sent' = Append(o_sent, LLMClientCompletionResponse(response, response))
            /\ UNCHANGED <<o_pc, o_result>>
       ELSE /\ StreamFails("SendError")
            /\ UNCHANGED o_sent
    /\ UNCHANGED <<o_open, nonOllamaVars>>

\* one pass of the loop on a chunk that parses as an OllamaResponse: its
\* response is pushed onto buffered_string and the pair (buffered_string,
\* Some(response)) is sent; the send fails when the receiver is dropped
Chunk(response) ==
    /\ o_pc = "streaming"
    /\ Len(chunks) < MaxChunks
    /\ chunks' = Append(chunks, response)
    /\ buffered_string' = buffered_string \o response
    /\ IF o_open
       THEN /\ o_sent' = Append(o_sent,
                                LLMClientCompletionResponse(buffered_string \o response,
                                                            response))
            /\ UNCHANGED <<o_pc, o_result>>
       ELSE /\ StreamFails("SendError")
            /\ UNCHANGED o_sent
    /\ UNCHANGED <<o_open, nonOllamaVars>>

\* response.chunk().await? fails, or the chunk does not parse as an
\* OllamaResponse
ChunkFails(error) ==
    /\ o_pc = "streaming"
    /\ StreamFails(error)
    /\ UNCHANGED <<chunks, buffered_string, o_sent, o_open, nonOllamaVars>>

\* response.chunk() yields None:
\* Ok(LLMClientCompletionResponse::new(buffered_string, None, ..))
StreamEnds ==
    /\ o_pc = "streaming"
    /\ o_pc' = "done"
    /\ o_result' =
          CompletionResult(TRUE, LLMClientCompletionResponse(buffered_string, NoDelta), "None")
    /\ UNCHANGED <<chunks, buffered_string, o_sent, o_open, nonOllamaVars>>

\* the receiver of the sender is dropped
ReceiverDropped ==
    /\ o_open
    /\ o_pc # "done"
    /\ o_open' = FALSE
    /\ UNCHANGED <<o_pc, chunks, buffered_string, o_sent, o_result, nonOllamaVars>>

OllamaNext ==
    \/ \E outcome \in {"Ok", "UnSupportedModel", "ReqwestError"} : StreamCompletion(outcome)
    \/ \E response \in ChunkTexts : Chunk(response)
    \/ \E error \in {"ReqwestError", "SerdeError"} : ChunkFails(error)
    \/ StreamEnds
    \/ ReceiverDropped

OllamaSpec == InitAll /\ [][OllamaNext]_vars

\* the strings over the characters of the chunk texts
RECURSIVE Concat(_, _)
Concat(texts, k) == IF k = 0 THEN EmptyString ELSE Concat(texts, k - 1) \o texts[k]

OllamaTypeOK ==
    /\ o_pc \in {"idle", "streaming", "done"}
    /\ chunks \in Seq(ChunkTexts)
    /\ Len(chunks) <= MaxChunks
    /\ buffered_string \in Seq({"a", "b", "c"})
    /\ Len(o_sent) <= Len(chunks)
    /\ o_open \in BOOLEAN
    /\ o_result.ok \in BOOLEAN
    /\ o_result.error \in LLMClientErrors \cup {"None"}

\* C25: the k-th message sent on the channel carries the concatenation of the
\* first k chunk texts as answer so far and the k-th chunk text as delta, and
\* the response the call returns carries the concatenation of all chunk texts.
C25_StreamingAccumulates ==
    /\ \A k \in DOMAIN o_sent :
          /\ k <= Len(chunks)
          /\ o_sent[k].answer_up_until_now = Concat(chunks, k)
          /\ o_sent[k].delta = chunks[k]
    /\ (o_pc = "done" /\ o_result.ok) =>
          /\ Len(o_sent) = Len(chunks)
          /\ o_result.response.answer_up_until_now = Concat(chunks, Len(chunks))
          /\ o_result.response.delta = NoDelta

\* a response of three chunks, one of them empty, has been returned
C25_Witness ==
    /\ o_pc = "done"
    /\ o_result.ok
    /\ Len(o_sent) = 3
    /\ \E k \in DOMAIN chunks : chunks[k] = EmptyString
    /\ Len(o_result.response.answer_up_until_now) >= 3

(* ------------------------------------------------------------------ *)
(* ToolBox: stream::iter(items).map(..).buffer_unordered(100).collect() *)
(* ------------------------------------------------------------------ *)

\* one ToolBox operation is followed at a time
ToolBoxIdle == f_pc = "idle" /\ s_pc = "idle" /\ u_pc = "idle"

\* the futures buffer_unordered has started and that have not completed
InFlight == f_next - f_done

\* the in-flight futures of the items that are not followed one by one
OthersInFlight == InFlight - Cardinality({w \in Watched : f_watch[w] = "in flight"})

\* a ToolBox operation hands an iterator of n items to a fan-out
FanOut(n) ==
    /\ ToolBoxIdle
    /\ f_pc' = "running"
    /\ f_items' = n
    /\ f_next' = 0
    /\ f_done' = 0
    /\ f_watch' = [w \in Watched |-> IF w <= n THEN "waiting" ELSE "absent"]
    /\ f_times' = [w \in Watched |-> 0]
    /\ UNCHANGED <<s_pc, s_definitions, s_result,
                   u_pc, u_files, u_opened, u_mapping, u_result, nonToolBoxVars>>

\* the window of the fan-out is not honoured: the next future is started
\* whatever the number in flight
FanOutStartNoWindow ==
    /\ f_pc = "running"
    /\ f_next < f_items
    /\ f_next' = f_next + 1
    /\ f_watch' = IF f_next + 1 \in Watched
                  THEN [f_watch EXCEPT ![f_next + 1] = "in flight"]
                  ELSE f_watch
    /\ UNCHANGED <<f_pc, f_items, f_done, f_times, s_pc, s_definitions, s_result,
                   u_pc, u_files, u_opened, u_mapping, u_result, nonToolBoxVars>>

\* buffer_unordered takes the next item of the iterator and starts its future
\* while fewer than its limit are in flight
FanOutStart ==
    /\ f_pc = "running"
    /\ f_next < f_items
    /\ InFlight < BufferLimit
    /\ f_next' = f_next + 1
    /\ f_watch' = IF f_next + 1 \in Watched
                  THEN [f_watch EXCEPT ![f_next + 1] = "in flight"]
                  ELSE f_watch
    /\ UNCHANGED <<f_pc, f_items, f_done, f_times, s_pc, s_definitions, s_result,
                   u_pc, u_files, u_opened, u_mapping, u_result, nonToolBoxVars>>

\* the future of a followed item completes, in any order among those in flight
FanOutCompleteWatched(w) ==
    /\ f_pc = "running"
    /\ f_watch[w] = "in flight"
    /\ f_watch' = [f_watch EXCEPT ![w] = "done"]
    /\ f_times' = [f_times EXCEPT ![w] = @ + 1]
    /\ f_done' = f_done + 1
    /\ UNCHANGED <<f_pc, f_items, f_next, s_pc, s_definitions, s_result,
                   u_pc, u_files, u_opened, u_mapping, u_result, nonToolBoxVars>>

\* the future of another item completes
FanOutCompleteOther ==
    /\ f_pc = "running"
    /\ OthersInFlight > 0
    /\ f_done' = f_done + 1
    /\ UNCHANGED <<f_pc, f_items, f_next, f_watch, f_times, s_pc, s_definitions,
                   s_result, u_pc, u_files, u_opened, u_mapping, u_result,
                   nonToolBoxVars>>

\* collect() returns once the iterator is exhausted and no future is in flight
FanOutCollect ==
    /\ f_pc = "running"
    /\ f_next = f_items
    /\ InFlight = 0
    /\ f_pc' = "collected"
    /\ UNCHANGED <<f_items, f_next, f_done, f_watch, f_times, s_pc, s_definitions,
                   s_result, u_pc, u_files, u_opened, u_mapping, u_result,
                   nonToolBoxVars>>

\* a step of a fan-out that is under way
FanOutStep ==
    \/ FanOutStart
    \/ \E w \in Watched : FanOutCompleteWatched(w)
    \/ FanOutCompleteOther
    \/ FanOutCollect

(* ------------------------------------------------------------------ *)
(* ToolBox::find_snippet_for_symbol                                    *)
(* ------------------------------------------------------------------ *)

\* ToolBox::file_open: the broker's error is wrapped, an output of another
\* variant is a WrongToolOutput error
file_open(outcome) ==
    IF outcome = "Err" THEN "Err(ToolError)"
    ELSE IF outcome = "other variant" THEN "Err(WrongToolOutput)"
    ELSE "Ok"

\* ToolBox::find_in_file, the same way
find_in_file(outcome) ==
    IF outcome = "Err" THEN "Err(ToolError)"
    ELSE IF outcome = "other variant" THEN "Err(WrongToolOutput)"
    ELSE "Ok"

\* ToolBox::go_to_definition, the same way
go_to_definition(outcome) ==
    IF outcome = "Err" THEN "Err(ToolError)"
    ELSE IF outcome = "other variant" THEN "Err(WrongToolOutput)"
    ELSE "Ok"

\* find_snippet_for_symbol returns result
SnippetReturn(result) ==
    /\ s_pc' = IF result = "panic" THEN "panicked" ELSE "returned"
    /\ s_result' = result

\* the call is made: its first file_open is sent to the broker
FindSnippetForSymbol ==
    /\ ToolBoxIdle
    /\ s_pc' = "file_open"
    /\ UNCHANGED <<s_definitions, s_result, f_pc, f_items, f_next, f_done, f_watch,
                   f_times, u_pc, u_files, u_opened, u_mapping, u_result,
                   nonToolBoxVars>>

\* the first file_open returns; on success the document is added and the
\* outline of the file is looked for the symbol
SnippetFileOpenReturns(outcome, outline) ==
    /\ s_pc = "file_open"
    /\ IF file_open(outcome) # "Ok" THEN SnippetReturn(file_open(outcome))
       ELSE IF outline = "None" THEN SnippetReturn("Err(OutlineNodeNotFound)")
       ELSE IF outline = "has symbol" THEN SnippetReturn("Ok(Snippet)")
       ELSE s_pc' = "file_open_again" /\ s_result' = s_result
    /\ UNCHANGED <<s_definitions, f_pc, f_items, f_next, f_done, f_watch, f_times,
                   u_pc, u_files, u_opened, u_mapping, u_result, nonToolBoxVars>>

\* the symbol is not in the outline: the file is opened again for its content
SnippetFileOpenAgainReturns(outcome) ==
    /\ s_pc = "file_open_again"
    /\ IF file_open(outcome) # "Ok" THEN SnippetReturn(file_open(outcome))
       ELSE s_pc' = "find_in_file" /\ s_result' = s_result
    /\ UNCHANGED <<s_definitions, f_pc, f_items, f_next, f_done, f_watch, f_times,
                   u_pc, u_files, u_opened, u_mapping, u_result, nonToolBoxVars>>

\* find_in_file returns; .map(get_position).ok().flatten() makes of its error
\* and of a response without a position the same None
SnippetFindInFileReturns(outcome, has_position) ==
    /\ s_pc = "find_in_file"
    /\ IF find_in_file(outcome) = "Ok" /\ has_position
       THEN s_pc' = "go_to_definition" /\ s_result' = s_result
       ELSE SnippetReturn("Err(SnippetNotFound)")
    /\ UNCHANGED <<s_definitions, f_pc, f_items, f_next, f_done, f_watch, f_times,
                   u_pc, u_files, u_opened, u_mapping, u_result, nonToolBoxVars>>

\* go_to_definition returns n definitions; grab_symbol_content_from_definition
\* starts with definitions().remove(0), which panics on an empty list, and
\* then opens the file of the first definition
SnippetGoToDefinitionReturns(outcome, n) ==
    /\ s_pc = "go_to_definition"
    /\ IF go_to_definition(outcome) # "Ok"
       THEN SnippetReturn(go_to_definition(outcome)) /\ s_definitions' = s_definitions
       ELSE /\ s_definitions' = n
            /\ IF n = 0 THEN SnippetReturn("panic")
               ELSE s_pc' = "definition_file_open" /\ s_result' = s_result
    /\ UNCHANGED <<f_pc, f_items, f_next, f_done, f_watch, f_times,
                   u_pc, u_files, u_opened, u_mapping, u_result, nonToolBoxVars>>

\* the file of the definition is opened; the symbol is taken from its outline
\* or the call fails with SymbolNotFound
DefinitionFileOpenReturns(outcome, outline) ==
    /\ s_pc = "definition_file_open"
    /\ IF file_open(outcome) # "Ok" THEN SnippetReturn(file_open(outcome))
       ELSE IF outline = "has symbol" THEN SnippetReturn("Ok(Snippet)")
       ELSE SnippetReturn("Err(ToolError(SymbolNotFound))")
    /\ UNCHANGED <<s_definitions, f_pc, f_items, f_next, f_done, f_watch, f_times,
                   u_pc, u_files, u_opened, u_mapping, u_result, nonToolBoxVars>>

(* ------------------------------------------------------------------ *)
(* ToolBox::utlity_symbols_search                                      *)
(* ------------------------------------------------------------------ *)

\* utlity_symbols_search returns
UtilityReturn(kind, definitions) ==
    /\ u_pc' = "returned"
    /\ u_result' = UtilityResult(kind, definitions)

\* file_to_content_mapping: the filter_map over the collected results keeps
\* the files whose result is Ok(Some(response)) and drops every other
FileToContentMapping(opened) == {f \in Files : opened[f] = "expected variant"}

\* the call is made: the CodeSymbolUtilitySearch input is sent to the broker
UtlitySymbolsSearch ==
    /\ ToolBoxIdle
    /\ u_pc' = "search"
    /\ UNCHANGED <<u_files, u_opened, u_mapping, u_result, f_pc, f_items, f_next,
                   f_done, f_watch, f_times, s_pc, s_definitions, s_result,
                   nonToolBoxVars>>

\* the search returns: its error and its wrong variant end the call; its n
\* symbols have their files opened
UtilitySearchReturns(outcome, n) ==
    /\ u_pc = "search"
    /\ IF outcome = "Err"
       THEN UtilityReturn("Err(ToolError)", {}) /\ UNCHANGED <<u_files, u_opened>>
       ELSE IF outcome = "other variant"
       THEN UtilityReturn("Err(WrongToolOutput)", {}) /\ UNCHANGED <<u_files, u_opened>>
       ELSE /\ u_files' = n
            /\ u_opened' = [f \in Files |-> IF f <= n THEN "pending" ELSE "not asked"]
            /\ u_pc' = IF n = 0 THEN "locating" ELSE "opening"
            /\ u_result' = u_result
    /\ UNCHANGED <<u_mapping, f_pc, f_items, f_next, f_done, f_watch, f_times,
                   s_pc, s_definitions, s_result, nonToolBoxVars>>

\* the broker answers the open request of file f; after the last answer the
\* mapping is built from the collected results
OpenFileReturns(f, outcome) ==
    /\ u_pc = "opening"
    /\ u_opened[f] = "pending"
    /\ u_opened' = [u_opened EXCEPT ![f] = outcome]
    /\ IF \A g \in Files : u_opened'[g] # "pending"
       THEN u_pc' = "locating" /\ u_mapping' = FileToContentMapping(u_opened')
       ELSE UNCHANGED <<u_pc, u_mapping>>
    /\ UNCHANGED <<u_files, u_result, f_pc, f_items, f_next, f_done, f_watch,
                   f_times, s_pc, s_definitions, s_result, nonToolBoxVars>>

\* the symbols are located and their outlines asked for: a symbol whose file
\* has no content in the mapping, or whose location, definition or outline is
\* not found, is left out, and the call returns Ok
UtilityLocate(found) ==
    /\ u_pc = "locating"
    /\ found \subseteq u_mapping
    /\ UtilityReturn("Ok", found)
    /\ UNCHANGED <<u_files, u_opened, u_mapping, f_pc, f_items, f_next, f_done,
                   f_watch, f_times, s_pc, s_definitions, s_result, nonToolBoxVars>>

(* ------------------------------------------------------------------ *)
(* ToolBox: the operations together                                    *)
(* ------------------------------------------------------------------ *)

ToolBoxNext ==
    \/ \E n \in ItemCounts : FanOut(n)
    \/ FanOutStart
    \/ \E w \in Watched : FanOutCompleteWatched(w)
    \/ FanOutCompleteOther
    \/ FanOutCollect
    \/ FindSnippetForSymbol
    \/ \E outcome \in InvokeOutcomes, outline \in Outlines :
           SnippetFileOpenReturns(outcome, outline)
    \/ \E outcome \in InvokeOutcomes : SnippetFileOpenAgainReturns(outcome)
    \/ \E outcome \in InvokeOutcomes, has_position \in BOOLEAN :
           SnippetFindInFileReturns(outcome, has_position)
    \/ \E outcome \in InvokeOutcomes, n \in 0 .. MaxDefinitions :
           SnippetGoToDefinitionReturns(outcome, n)
    \/ \E outcome \in InvokeOutcomes, outline \in Outlines :
           DefinitionFileOpenReturns(outcome, outline)
    \/ UtlitySymbolsSearch
    \/ \E outcome \in InvokeOutcomes, n \in 0 .. MaxFiles :
           UtilitySearchReturns(outcome, n)
    \/ \E f \in Files, outcome \in InvokeOutcomes : OpenFileReturns(f, outcome)
    \/ \E found \in SUBSET Files : UtilityLocate(found)

\* every started unit of work of a fan-out completes and the executor keeps
\* polling the stream: a fan-out that can take a step takes one
ToolBoxSpec == InitAll /\ [][ToolBoxNext]_vars /\ WF_vars(FanOutStep)

ToolBoxTypeOK ==
    /\ f_pc \in {"idle", "running", "collected"}
    /\ f_items \in 0 .. MaxItems
    /\ f_next \in 0 .. f_items
    /\ f_done \in 0 .. f_next
    /\ f_watch \in [Watched -> {"absent", "waiting", "in flight", "done"}]
    /\ f_times \in [Watched -> 0 .. 1]
    /\ s_pc \in {"idle", "file_open", "file_open_again", "find_in_file",
                 "go_to_definition", "definition_file_open", "returned", "panicked"}
    /\ s_definitions \in 0 .. MaxDefinitions \cup {NoDefinitions}
    /\ s_result \in SnippetOutcomes
    /\ u_pc \in {"idle", "search", "opening", "locating", "returned"}
    /\ u_files \in 0 .. MaxFiles
    /\ u_opened \in [Files -> InvokeOutcomes \cup {"not asked", "pending"}]
    /\ u_mapping \subseteq Files
    /\ u_result.kind \in {"None", "Ok", "Err(ToolError)", "Err(WrongToolOutput)"}
    /\ u_result.definitions \subseteq u_mapping

\* every item of the fan-out has had its future completed, the followed ones
\* once each
AllProcessedOnce ==
    /\ f_pc = "collected"
    /\ f_done = f_items
    /\ \A w \in Watched : w <= f_items => f_watch[w] = "done" /\ f_times[w] = 1

\* C21: whenever a ToolBox operation receives from the broker an Ok output of
\* another variant than the one its request expects, the operation returns
\* WrongToolOutput to its caller, the per-file open requests of
\* utlity_symbols_search included
C21_VariantMismatchSurfaced ==
    (u_pc = "returned" /\ \E f \in Files : u_opened[f] = "other variant")
        => u_result.kind = "Err(WrongToolOutput)"

\* C26: in find_snippet_for_symbol, when the symbol is absent from the outline
\* and go-to-definition returns an empty list of definitions, the result is a
\* not-found error value and not a panic
C26_EmptyDefinitionsIsError ==
    (s_pc \in {"returned", "panicked"} /\ s_definitions = 0)
        => s_result \in {"Err(SnippetNotFound)", "Err(OutlineNodeNotFound)",
                         "Err(ToolError(SymbolNotFound))"}

IndexRepository(n, walker) ==
    /\ i_pc = "idle"
    /\ i_count' = n
    /\ processed' = 0
    /\ percents' = {}
    /\ synchronized' = FALSE
    /\ seen_cancelled' = "unchecked"
    /\ IF walker = "git_open_fails"
       THEN /\ i_pc' = "done"
            /\ i_result' = "Err(open_repository)"
       ELSE /\ i_pc' = "walking"
            /\ i_result' = "None"
    /\ UNCHANGED <<cancelled, nonIndexVars>>

\* file_worker on one entry: the entry's documents are added (a failure is
\* logged), the counter is incremented and the share before the increment is
\* reported
FileWorker ==
    /\ i_pc = "walking"
    /\ processed < i_count
    /\ processed' = processed + 1
    /\ percents' = percents \cup {worker_percent(processed, i_count)}
    /\ UNCHANGED <<i_pc, i_count, cancelled, seen_cancelled, synchronized, i_result,
                   nonIndexVars>>

\* the session is cancelled from outside, at any time of a run
Cancel ==
    /\ i_pc \in {"walking", "walked", "synchronizing"}
    /\ ~cancelled
    /\ cancelled' = TRUE
    /\ UNCHANGED <<i_pc, i_count, processed, seen_cancelled, percents, synchronized,
                   i_result, nonIndexVars>>

\* walker.for_each returns: every entry was handed to file_worker, or the
\* walk was cut short by the cancellation
ForEachReturns ==
    /\ i_pc = "walking"
    /\ processed = i_count \/ cancelled
    /\ i_pc' = "walked"
    /\ UNCHANGED <<i_count, processed, cancelled, seen_cancelled, percents,
                   synchronized, i_result, nonIndexVars>>

\* the check after the walk goes on whatever pipes.is_cancelled() says
CheckCancelledGoesOn ==
    /\ i_pc = "walked"
    /\ seen_cancelled' = IF cancelled THEN "cancelled" ELSE "not cancelled"
    /\ i_pc' = "synchronizing"
    /\ UNCHANGED <<i_count, processed, cancelled, percents, synchronized, i_result,
                   nonIndexVars>>

\* if pipes.is_cancelled() { bail!("cancelled"); }
CheckCancelled ==
    /\ i_pc = "walked"
    /\ seen_cancelled' = IF cancelled THEN "cancelled" ELSE "not cancelled"
    /\ IF cancelled
       THEN /\ i_pc' = "done"
            /\ i_result' = "Err(cancelled)"
       ELSE /\ i_pc' = "synchronizing"
            /\ i_result' = i_result
    /\ UNCHANGED <<i_count, processed, cancelled, percents, synchronized,
                   nonIndexVars>>

\* file_cache.synchronize(..).await?; pipes.index_percent(100); Ok(())
Synchronize(ok) ==
    /\ i_pc = "synchronizing"
    /\ i_pc' = "done"
    /\ IF ok
       THEN /\ synchronized' = TRUE
            /\ percents' = percents \cup {100}
            /\ i_result' = "Ok"
       ELSE /\ synchronized' = synchronized
            /\ percents' = percents
            /\ i_result' = "Err(synchronize)"
    /\ UNCHANGED <<i_count, processed, cancelled, seen_cancelled, nonIndexVars>>

\* the next run on the repository starts from a session that is not cancelled
IndexIdle ==
    /\ i_pc = "done"
    /\ i_pc' = "idle"
    /\ cancelled' = FALSE
    /\ UNCHANGED <<i_count, processed, seen_cancelled, percents, synchronized,
                   i_result, nonIndexVars>>

IndexNext ==
    \/ \E n \in 0 .. MaxEntries, walker \in Walkers : IndexRepository(n, walker)
    \/ FileWorker
    \/ Cancel
    \/ ForEachReturns
    \/ CheckCancelled
    \/ \E ok \in BOOLEAN : Synchronize(ok)
    \/ IndexIdle

IndexSpec == InitAll /\ [][IndexNext]_vars

IndexTypeOK ==
    /\ i_pc \in {"idle", "walking", "walked", "synchronizing", "done"}
    /\ i_count \in 0 .. MaxEntries
    /\ processed \in 0 .. i_count
    /\ cancelled \in BOOLEAN
    /\ seen_cancelled \in {"unchecked", "cancelled", "not cancelled"}
    /\ percents \subseteq 0 .. 100
    /\ synchronized \in BOOLEAN
    /\ i_result \in IndexResults \cup {"None"}

(* ------------------------------------------------------------------ *)
(* Properties of File::index_repository                                 *)
(* ------------------------------------------------------------------ *)

\* C32: a run whose check after the walk finds pipes.is_cancelled() returns
\* the error "cancelled" and neither synchronizes the file cache nor reports
\* 100% progress; a run that synchronized the cache or reported 100% found
\* the session not cancelled at that check.
C32_CancelledRunStopsShort ==
    /\ seen_cancelled = "cancelled" =>
          /\ i_pc \in {"done", "idle"}
          /\ i_result = "Err(cancelled)"
          /\ ~synchronized
          /\ 100 \notin percents
    /\ (synchronized \/ 100 \in percents) =>
          /\ seen_cancelled = "not cancelled"
          /\ synchronized
          /\ i_result = "Ok"

\* a run that handed every entry to file_worker and was then found cancelled
C32_Witness ==
    /\ i_pc = "done"
    /\ seen_cancelled = "cancelled"
    /\ i_result = "Err(cancelled)"
    /\ i_count = MaxEntries
    /\ processed = i_count
    /\ percents # {}

(* ------------------------------------------------------------------ *)
(* check_rate_limit                                                     *)
(* ------------------------------------------------------------------ *)

\* the system clock advances
Tick(d) ==
    /\ ticks < MaxTicks
    /\ ticks' = ticks + 1
    /\ clock' = clock + d
    /\ UNCHANGED <<second, last_reset, poisoned, overflow_checks, r_pc, r_now,
                   r_result, r_calls, window_oks, early_resets, nonRateVars>>

\* let now = SystemTime::now()..as_millis(), read before the mutex is taken
ReadNow(t) ==
    /\ r_pc[t] = "idle"
    /\ r_calls < MaxRateCalls
    /\ r_calls' = r_calls + 1
    /\ r_now' = [r_now EXCEPT ![t] = clock]
    /\ r_result' = [r_result EXCEPT ![t] = "None"]
    /\ r_pc' = [r_pc EXCEPT ![t] = "locking"]
    /\ UNCHANGED <<clock, ticks, second, last_reset, poisoned, overflow_checks,
                   window_oks, early_resets, nonRateVars>>

\* REQUEST_COUNT.lock() on a poisoned mutex: "Failed to acquire lock"
LockPoisoned(t) ==
    /\ r_pc[t] = "locking"
    /\ poisoned
    /\ r_result' = [r_result EXCEPT ![t] = "Failed to acquire lock"]
    /\ r_pc' = [r_pc EXCEPT ![t] = "idle"]
    /\ UNCHANGED <<clock, ticks, second, last_reset, poisoned, overflow_checks,
                   r_now, r_calls, window_oks, early_resets, nonRateVars>>

\* the body under the mutex when the counter was left at s: the limit is
\* checked and the counter incremented
LimitCheck(t, s, oks) ==
    /\ r_pc' = [r_pc EXCEPT ![t] = "idle"]
    /\ IF s >= RATE_LIMIT_PER_SECOND
       THEN /\ second' = s
            /\ window_oks' = oks
            /\ r_result' = [r_result EXCEPT ![t] = "Rate limit exceeded"]
       ELSE /\ second' = s + 1
            /\ window_oks' = oks + 1
            /\ r_result' = [r_result EXCEPT ![t] = "Ok"]

\* the body under the mutex when now is not before last_reset: the window is
\* reset when it is more than 1000 ms old
CheckRateLimit(t) ==
    /\ r_pc[t] = "locking"
    /\ ~poisoned
    /\ r_now[t] >= last_reset
    /\ IF r_now[t] - last_reset > Window
       THEN /\ last_reset' = r_now[t]
            /\ LimitCheck(t, 0, 0)
       ELSE /\ last_reset' = last_reset
            /\ LimitCheck(t, second, window_oks)
    /\ UNCHANGED <<clock, ticks, poisoned, overflow_checks, r_now, r_calls,
                   early_resets, nonRateVars>>

\* now - count.last_reset with now before last_reset, in a build that checks
\* overflow: the thread panics with the mutex held and poisons it
CheckRateLimitPanics(t) ==
    /\ r_pc[t] = "locking"
    /\ ~poisoned
    /\ r_now[t] < last_reset
    /\ overflow_checks \in {"unknown", "on"}
    /\ overflow_checks' = "on"
    /\ poisoned' = TRUE
    /\ r_result' = [r_result EXCEPT ![t] = "panic"]
    /\ r_pc' = [r_pc EXCEPT ![t] = "panicked"]
    /\ UNCHANGED <<clock, ticks, second, last_reset, r_now, r_calls, window_oks,
                   early_resets, nonRateVars>>

\* now - count.last_reset with now before last_reset, in a build that does
\* not check overflow: the u128 difference wraps to 2^128 - (last_reset - now),
\* which is above 1000, so the window is reset and last_reset moves back
CheckRateLimitWraps(t) ==
    /\ r_pc[t] = "locking"
    /\ ~poisoned
    /\ r_now[t] < last_reset
    /\ overflow_checks \in {"unknown", "off"}
    /\ overflow_checks' = "off"
    /\ last_reset' = r_now[t]
    /\ early_resets' = early_resets + 1
    /\ LimitCheck(t, 0, window_oks)
    /\ UNCHANGED <<clock, ticks, poisoned, r_now, r_calls, nonRateVars>>

RateNext ==
    \/ \E d \in TickSteps : Tick(d)
    \/ \E t \in Threads :
          \/ ReadNow(t)
          \/ LockPoisoned(t)
          \/ CheckRateLimit(t)
          \/ CheckRateLimitPanics(t)
          \/ CheckRateLimitWraps(t)

RateSpec == InitAll /\ [][RateNext]_vars

RateTypeOK ==
    /\ clock \in Nat
    /\ ticks \in 0 .. MaxTicks
    /\ second \in 0 .. RATE_LIMIT_PER_SECOND
    /\ last_reset \in Nat
    /\ poisoned \in BOOLEAN
    /\ overflow_checks \in {"unknown", "on", "off"}
    /\ r_pc \in [Threads -> {"idle", "locking", "panicked"}]
    /\ r_now \in [Threads -> Nat]
    /\ r_result \in [Threads -> RateResults]
    /\ r_calls \in 0 .. MaxRateCalls
    /\ window_oks \in 0 .. MaxRateCalls
    /\ early_resets \in 0 .. MaxRateCalls

(* ------------------------------------------------------------------ *)
(* Properties of check_rate_limit                                       *)
(* ------------------------------------------------------------------ *)

\* C40: check_rate_limit, called from several threads, returns Ok at most 5
\* times between two resets of the window, a reset is made only when more
\* than 1000 ms have passed since the last one, and every call returns Ok or
\* "Rate limit exceeded".
C40_RateLimited ==
    /\ window_oks <= RATE_LIMIT_PER_SECOND
    /\ early_resets = 0
    /\ \A t \in Threads : r_result[t] \in {"None", "Ok", "Rate limit exceeded"}

====
